---------------------------- MODULE Spec2Model ----------------------------
(***************************************************************************)
(* Festkassa: the order and receipt lifecycle of src/src/App.tsx           *)
(* (KassaPage) and the print worker of src/festkassa-print-bridge/index.js *)
(* as a state machine.                                                     *)
(*                                                                         *)
(* The persisted tables (orders, order_items, voids, print_jobs and the    *)
(* per-event receipt counter) are shared by all sessions.  A session is    *)
(* one KassaPage instance on one device.  Every async handler is split at  *)
(* its awaits: one action per persistence call, with the values the        *)
(* handler captured when it was invoked (its closure) kept in a frame.     *)
(* Amounts are whole cents.  Texts are sequences of one-character strings. *)
(***************************************************************************)
EXTENDS Integers, Sequences, FiniteSets, TLC

\* ------------------------------------------------------------- bounds
MaxOrders == 2        \* successful Sequencer calls (receipt numbers issued)
MaxQty == 3           \* quantity of one cart line
MaxFaults == 1        \* persistence / RPC calls that answer with an error
MaxVoidOps == 2       \* void operations (either path) that pass their guards
MaxJobs == 2          \* print jobs inserted
MaxOps == 3           \* finalize, void, reprint and report calls that pass their guards
MaxTime == 1          \* latest timestamp a device clock shows

\* ---------------------------------------------------- program constants
TaxNum == 20          \* grossTotal * (20 / 120)
TaxDen == 120
TaxRatePct == 20      \* tax_rate: 0.2

EVENT_ID == "00000000-0000-0000-0000-000000000001"

Sessions == {"s1", "s2"}

\* A value of record type that is absent (null / undefined in the source).
Null == [null |-> TRUE]

\* ----------------------------------------------------------------- text
Blank == " "

RECURSIVE TrimLeft(_)
TrimLeft(t) ==
  IF t = <<>> THEN <<>>
  ELSE IF Head(t) = Blank THEN TrimLeft(Tail(t)) ELSE t

RECURSIVE TrimRight(_)
TrimRight(t) ==
  IF t = <<>> THEN <<>>
  ELSE IF t[Len(t)] = Blank THEN TrimRight(SubSeq(t, 1, Len(t) - 1)) ELSE t

\* String.prototype.trim
Trim(t) == TrimRight(TrimLeft(t))

Digit(d) == <<"0", "1", "2", "3", "4", "5", "6", "7", "8", "9">>[d + 1]

\* ---------------------------------------------------------------- money
\* round2(n) = Math.round((n + EPSILON) * 100) / 100 of the amount num/den
\* cents: the nearest whole cent, a half rounded up.
round2(num, den) == (2 * num + den) \div (2 * den)

RECURSIVE SumLines(_)
\* cartLines.reduce((s, l) => s + price_gross * qty, 0)
SumLines(lines) ==
  IF lines = <<>> THEN 0
  ELSE Head(lines).product.price_gross * Head(lines).qty + SumLines(Tail(lines))

grossTotal(lines) == round2(SumLines(lines), 1)

\* The gross totals up to MaxGross cents whose sixth ends in exactly half
\* a cent and for which grossTotal * (20 / 120), a product of two doubles,
\* is the double next below that half cent; adding Number.EPSILON, which is
\* smaller than the spacing of doubles at 2.0 and above, does not lift it,
\* and Math.round then rounds down.  For every other gross total up to
\* MaxGross the doubles give the cent that exact arithmetic gives.
MaxGross == 3000
HalfCentLost ==
  {1209, 1233, 1257, 1281, 1287, 1305, 1311, 1335, 1359, 1383,
   1407, 1431, 1437, 1455, 1461, 1485, 1509, 1533, 1587, 1611,
   1659, 1665, 1713, 1761, 1809, 1815, 1863, 1911, 1959, 1965,
   2013, 2061, 2109, 2115, 2163, 2211, 2259, 2265, 2313, 2361,
   2409, 2415, 2439, 2445, 2463, 2487, 2493, 2499, 2511, 2535,
   2541, 2547, 2559, 2565, 2589, 2595, 2613, 2637, 2643, 2649,
   2661, 2685, 2691, 2697, 2709, 2715, 2739, 2745, 2763, 2787,
   2793, 2799, 2811, 2835, 2841, 2847, 2859, 2865, 2889, 2895,
   2913, 2937, 2943, 2949, 2961, 2985, 2991, 2997}

\* taxTotal = round2(grossTotal * (20 / 120)), in doubles
taxTotal(gross) ==
  round2(gross * TaxNum, TaxDen) - (IF gross \in HalfCentLost THEN 1 ELSE 0)
netTotal(gross, tax) == round2(gross - tax, 1)

\* line_total_gross: round2(Number(l.product.price_gross) * l.qty)
LineTotal(l) == round2(l.product.price_gross * l.qty, 1)

\* -------------------------------------------------------- master data
Bars == {[id |-> "b1", name |-> "Hauptbar"], [id |-> "b2", name |-> "Weinbar"]}
BarIds == {b.id : b \in Bars}
NoBar == "none"

Products ==
  { [id |-> "p1", bar_id |-> "b1", name |-> "Bier", price_gross |-> 250],
    [id |-> "p2", bar_id |-> "b1", name |-> "Wurst", price_gross |-> 300],
    [id |-> "p3", bar_id |-> "b2", name |-> "Wein", price_gross |-> 403] }

\* products of the selected bar (.eq("bar_id", selectedBarId))
ProductsOf(barId) == {p \in Products : p.bar_id = barId}

\* selectedBar = bars.find((b) => b.id === selectedBarId) ?? null
selectedBarOf(barId) ==
  IF \E b \in Bars : b.id = barId THEN CHOOSE b \in Bars : b.id = barId ELSE Null

\* --------------------------------------------------------- identities
StaffRows ==
  { [pin |-> <<"1">>, id |-> "u1", name |-> "Anna", role |-> "staff"],
    [pin |-> <<"9">>, id |-> "u2", name |-> "Chef", role |-> "admin"],
    [pin |-> <<"7">>, id |-> "u3", name |-> "Gast", role |-> "guest"] }

PinInputs == {<<>>, <<" ">>, <<"1">>, <<"9">>, <<" ", "9", " ">>, <<"7">>, <<"0">>}

\* rpc("check_staff_pin"): the rows whose PIN matches.
check_staff_pin(pin) == {r \in StaffRows : r.pin = pin}

\* checkPin(pin); rpcOk: the RPC answers without an error.
checkPin(pin, rpcOk) ==
  LET clean == Trim(pin)
      rows == check_staff_pin(clean)
  IN IF clean = <<>> THEN Null
     ELSE IF ~rpcOk THEN Null
     ELSE IF rows = {} THEN Null
     ELSE LET row == CHOOSE r \in rows : TRUE
          IN IF row.role # "staff" /\ row.role # "admin" THEN Null
             ELSE [id |-> row.id, name |-> row.name, role |-> row.role]

\* ---------------------------------------------------------- sequencer
\* receipt_no: the event prefix and the zero-padded short number.
FormatReceiptNo(n) ==
  <<"B">> \o <<Digit((n \div 100) % 10), Digit((n \div 10) % 10), Digit(n % 10)>>

\* A sequencer that answers without storing the increment (a read and a
\* write that are not one atomic step lose updates in this way).
next_receipt_lost_update(c) ==
  [counter |-> c,
   row |-> [receipt_no |-> FormatReceiptNo(c + 1), short_no |-> c + 1]]

\* next_receipt(p_event_id): one atomic increment-and-read of the counter.
next_receipt(c) ==
  [counter |-> c + 1,
   row |-> [receipt_no |-> FormatReceiptNo(c + 1), short_no |-> c + 1]]

\* The row of a call that "returns no value".
EmptyRow == [receipt_no |-> <<>>, short_no |-> 0]

\* -------------------------------------------------------------- state
VARIABLES
  counter,        \* event_counters: the last short number issued
  orders,         \* table orders, in insertion order; id = position
  order_items,    \* table order_items, in insertion order
  voids,          \* table voids
  print_jobs,     \* table print_jobs
  staff,          \* session: logged-in cashier or Null
  selectedBarId,  \* session: selected stall or NoBar
  cart,           \* session: cart lines in insertion order
  paymentMethod,  \* session
  lastReceipt,    \* session: ReceiptResponse or Null
  adminUnlocked,  \* session
  adminUser,      \* session
  msg,            \* session: [error, voidMsg, adminMsg]
  report,         \* session: [error, totals, byBar, byProduct]
  lr,             \* session: the loadReport call in flight
  co,             \* session: the doCheckout call in flight
  vl,             \* session: the voidLastReceiptNoReason call in flight
  av,             \* session: the adminVoidByReceipt call in flight
  rp,             \* session: the adminReprintByReceipt call in flight
  worker,         \* worker process: the pollPrintJobs call in flight
  page,           \* public receipt page: its state and its lookup in flight
  printed,        \* ghost: payloads the worker has output, in order
  issued,         \* ghost: rows the Sequencer returned, with the caller
  voidLog,        \* ghost: finished void operations
  adminProof,     \* ghost: session's last admin-role PIN check not yet locked
  cartLog,        \* ghost: session's last cart call and whether its line existed
  faults,         \* ghost: calls that answered with an error so far
  ops             \* ghost: handler calls that passed their guards so far

dbVars == <<counter, orders, order_items, voids, print_jobs>>
uiVars == <<staff, selectedBarId, cart, paymentMethod, lastReceipt,
            adminUnlocked, adminUser, msg, report, lr>>
frameVars == <<co, vl, av, rp, worker, page>>
ghostVars == <<printed, issued, voidLog, adminProof, cartLog, faults, ops>>
vars == <<dbVars, uiVars, frameVars, ghostVars>>
\* the session state but the messages
uiState == <<staff, selectedBarId, cart, paymentMethod, lastReceipt,
             adminUnlocked, adminUser, report, lr>>

NoTime == 0 - 1

CoIdle == [pc |-> "idle"]
VlIdle == [pc |-> "idle"]
AvIdle == [pc |-> "idle"]
RpIdle == [pc |-> "idle"]
LrIdle == [pc |-> "idle"]
WorkerIdle == [pc |-> "idle"]
\* ReceiptPage before its effect ran: loading, no order, no items, no error
PageInit == [pc |-> "idle", token |-> <<>>, o |-> Null, loading |-> TRUE,
             error |-> "", order |-> Null, items |-> <<>>]
Workers == {"w1", "w2"}

NoCartCall == [op |-> "none", id |-> "", had |-> FALSE]
NoMsg == [error |-> "", voidMsg |-> "", adminMsg |-> ""]
NoReport == [error |-> "", totals |-> Null, byBar |-> <<>>, byProduct |-> <<>>]

Init ==
  /\ counter = 0
  /\ orders = <<>>
  /\ order_items = <<>>
  /\ voids = <<>>
  /\ print_jobs = <<>>
  /\ staff = [s \in Sessions |-> Null]
  /\ selectedBarId = [s \in Sessions |-> NoBar]
  /\ cart = [s \in Sessions |-> <<>>]
  /\ paymentMethod = [s \in Sessions |-> "cash"]
  /\ lastReceipt = [s \in Sessions |-> Null]
  /\ adminUnlocked = [s \in Sessions |-> FALSE]
  /\ adminUser = [s \in Sessions |-> Null]
  /\ msg = [s \in Sessions |-> NoMsg]
  /\ report = [s \in Sessions |-> NoReport]
  /\ lr = [s \in Sessions |-> LrIdle]
  /\ co = [s \in Sessions |-> CoIdle]
  /\ vl = [s \in Sessions |-> VlIdle]
  /\ av = [s \in Sessions |-> AvIdle]
  /\ rp = [s \in Sessions |-> RpIdle]
  /\ worker = [w \in Workers |-> WorkerIdle]
  /\ page = PageInit
  /\ printed = <<>>
  /\ issued = <<>>
  /\ voidLog = {}
  /\ adminProof = [s \in Sessions |-> FALSE]
  /\ cartLog = [s \in Sessions |-> NoCartCall]
  /\ faults = 0
  /\ ops = 0

\* A call may answer with an error while the fault budget lasts.
MayFail == faults < MaxFaults
Fault == faults' = faults + 1

\* new Date().toISOString() on a device: the clocks of the devices are not
\* synchronised, so a reading is any time.
Times == 0..MaxTime


SetMsg(s, field, text) == msg' = [msg EXCEPT ![s][field] = text]

\* ------------------------------------------------------- login, stall
\* doLogin: the login screen is the only screen while staff is null.
doLogin(s, pin, rpcOk) ==
  /\ staff[s] = Null
  /\ staff' = IF checkPin(pin, rpcOk) = Null THEN staff
              ELSE [staff EXCEPT ![s] = checkPin(pin, rpcOk)]
  /\ UNCHANGED <<dbVars, report, lr, selectedBarId, cart, paymentMethod, lastReceipt,
                 adminUnlocked, adminUser, msg, frameVars, ghostVars>>

\* A logout that leaves the cart as it is.
doLogout_keepingCart(s) ==
  /\ staff[s] # Null
  /\ staff' = [staff EXCEPT ![s] = Null]
  /\ lastReceipt' = [lastReceipt EXCEPT ![s] = Null]
  /\ SetMsg(s, "error", "")
  /\ UNCHANGED <<dbVars, report, lr, selectedBarId, cart, paymentMethod,
                 adminUnlocked, adminUser, frameVars, ghostVars>>

doLogout(s) ==
  /\ staff[s] # Null
  /\ staff' = [staff EXCEPT ![s] = Null]
  /\ cart' = [cart EXCEPT ![s] = <<>>]
  /\ lastReceipt' = [lastReceipt EXCEPT ![s] = Null]
  /\ SetMsg(s, "error", "")
  /\ UNCHANGED <<dbVars, report, lr, selectedBarId, paymentMethod,
                 adminUnlocked, adminUser, frameVars, ghostVars>>

chooseBar(s, id) ==
  /\ staff[s] # Null
  /\ selectedBarId[s] = NoBar
  /\ selectedBarId' = [selectedBarId EXCEPT ![s] = id]
  /\ cart' = [cart EXCEPT ![s] = <<>>]
  /\ paymentMethod' = [paymentMethod EXCEPT ![s] = "cash"]
  /\ lastReceipt' = [lastReceipt EXCEPT ![s] = Null]
  /\ SetMsg(s, "error", "")
  /\ UNCHANGED <<dbVars, report, lr, staff, adminUnlocked, adminUser,
                 frameVars, ghostVars>>

resetBar(s) ==
  /\ staff[s] # Null
  /\ selectedBarOf(selectedBarId[s]) # Null
  /\ selectedBarId' = [selectedBarId EXCEPT ![s] = NoBar]
  /\ cart' = [cart EXCEPT ![s] = <<>>]
  /\ paymentMethod' = [paymentMethod EXCEPT ![s] = "cash"]
  /\ lastReceipt' = [lastReceipt EXCEPT ![s] = Null]
  /\ SetMsg(s, "error", "")
  /\ UNCHANGED <<dbVars, report, lr, staff, adminUnlocked, adminUser,
                 frameVars, ghostVars>>

\* ---------------------------------------------------------------- cart
LineIndex(c, id) == {i \in 1..Len(c) : c[i].product.id = id}
HasLine(c, id) == LineIndex(c, id) # {}
LineOf(c, id) == c[CHOOSE i \in LineIndex(c, id) : TRUE]

\* setCart((prev) => ({ ...prev, [p.id]: { product: p, qty: (ex?.qty ?? 0) + 1 } }))
CartAdd(c, p) ==
  IF HasLine(c, p.id)
  THEN [i \in 1..Len(c) |->
          IF c[i].product.id = p.id
          THEN [product |-> p, qty |-> c[i].qty + 1] ELSE c[i]]
  ELSE Append(c, [product |-> p, qty |-> 1])

\* ghost: the cart call just made
LogCart(s, op, id) ==
  cartLog' = [cartLog EXCEPT ![s] = [op |-> op, id |-> id, had |-> HasLine(cart[s], id)]]

addToCart(s, p) ==
  /\ staff[s] # Null
  /\ p \in ProductsOf(selectedBarId[s])
  /\ HasLine(cart[s], p.id) => LineOf(cart[s], p.id).qty < MaxQty
  /\ SumLines(CartAdd(cart[s], p)) <= MaxGross
  /\ cart' = [cart EXCEPT ![s] = CartAdd(cart[s], p)]
  /\ LogCart(s, "add", p.id)
  /\ UNCHANGED <<dbVars, report, lr, staff, selectedBarId, paymentMethod, lastReceipt,
                 adminUnlocked, adminUser, msg, frameVars,
                 printed, issued, voidLog, adminProof, faults, ops>>

\* An inc that opens a line for an id the cart does not hold.
CartInc_opening(c, id) ==
  IF ~HasLine(c, id)
  THEN Append(c, [product |-> CHOOSE p \in Products : p.id = id, qty |-> 1])
  ELSE [i \in 1..Len(c) |->
          IF c[i].product.id = id THEN [c[i] EXCEPT !.qty = c[i].qty + 1] ELSE c[i]]

\* const line = prev[id]; if (!line) return prev;
\* return { ...prev, [id]: { ...line, qty: line.qty + 1 } }
CartInc(c, id) ==
  IF ~HasLine(c, id) THEN c
  ELSE [i \in 1..Len(c) |->
          IF c[i].product.id = id THEN [c[i] EXCEPT !.qty = c[i].qty + 1] ELSE c[i]]

\* A dec that keeps the line at quantity 0.
CartDec_keeping(c, id) ==
  IF ~HasLine(c, id) THEN c
  ELSE [i \in 1..Len(c) |->
          IF c[i].product.id = id THEN [c[i] EXCEPT !.qty = c[i].qty - 1] ELSE c[i]]

\* const next = line.qty - 1; if (next <= 0) { delete copy[id] }
CartDec(c, id) ==
  IF ~HasLine(c, id) THEN c
  ELSE IF LineOf(c, id).qty - 1 <= 0
       THEN SelectSeq(c, LAMBDA l : l.product.id # id)
       ELSE [i \in 1..Len(c) |->
               IF c[i].product.id = id THEN [c[i] EXCEPT !.qty = c[i].qty - 1] ELSE c[i]]

\* the ids a call of inc or dec may carry
ProductIds == {p.id : p \in Products}

inc(s, id) ==
  /\ staff[s] # Null
  /\ HasLine(cart[s], id) => LineOf(cart[s], id).qty < MaxQty
  /\ SumLines(CartInc(cart[s], id)) <= MaxGross
  /\ cart' = [cart EXCEPT ![s] = CartInc(cart[s], id)]
  /\ LogCart(s, "inc", id)
  /\ UNCHANGED <<dbVars, report, lr, staff, selectedBarId, paymentMethod, lastReceipt,
                 adminUnlocked, adminUser, msg, frameVars,
                 printed, issued, voidLog, adminProof, faults, ops>>

dec(s, id) ==
  /\ staff[s] # Null
  /\ cart' = [cart EXCEPT ![s] = CartDec(cart[s], id)]
  /\ LogCart(s, "dec", id)
  /\ UNCHANGED <<dbVars, report, lr, staff, selectedBarId, paymentMethod, lastReceipt,
                 adminUnlocked, adminUser, msg, frameVars,
                 printed, issued, voidLog, adminProof, faults, ops>>

\* clearCart() and the button "Warenkorb leeren": setCart({})
clearCart(s) ==
  /\ staff[s] # Null
  /\ cart' = [cart EXCEPT ![s] = <<>>]
  /\ LogCart(s, "clear", "")
  /\ UNCHANGED <<dbVars, report, lr, staff, selectedBarId, paymentMethod, lastReceipt,
                 adminUnlocked, adminUser, msg, frameVars,
                 printed, issued, voidLog, adminProof, faults, ops>>

setPaymentMethod(s, m) ==
  /\ staff[s] # Null
  /\ cart[s] # <<>>
  /\ paymentMethod[s] # m
  /\ paymentMethod' = [paymentMethod EXCEPT ![s] = m]
  /\ UNCHANGED <<dbVars, report, lr, staff, selectedBarId, cart, lastReceipt,
                 adminUnlocked, adminUser, msg, frameVars, ghostVars>>

\* "Neue Bestellung": setLastReceipt(null)
newOrder(s) ==
  /\ staff[s] # Null
  /\ lastReceipt[s] # Null
  /\ lastReceipt' = [lastReceipt EXCEPT ![s] = Null]
  /\ UNCHANGED <<dbVars, report, lr, staff, selectedBarId, cart, paymentMethod,
                 adminUnlocked, adminUser, msg, frameVars, ghostVars>>

\* ------------------------------------------------------------ finalize
\* randomToken(40): the n-th token drawn; no two draws are equal.
randomToken(n) == <<"t", Digit(n)>>

\* A finalize that takes whatever row the sequencer answered.
RowOk_unchecked(row) == TRUE

\* if (!row?.receipt_no || !row?.short_no) throw
RowOk(row) == row.receipt_no # <<>> /\ row.short_no # 0

InFlight(f, pcs) == Cardinality({x \in Sessions : f[x].pc \in pcs})

\* Print jobs inserted or about to be: finalize calls that print and reprints.
JobsBegun ==
  Len(print_jobs)
  + Cardinality({x \in Sessions : co[x].pc # "idle" /\ co[x].printRequested})
  + InFlight(rp, {"select", "items", "insert"})

\* A finalize that takes an empty cart.
CartEmpty_never(c) == FALSE

\* if (cartLines.length === 0)
CartEmpty(c) == Len(c) = 0

\* doCheckout(printRequested) up to its first await: the guards, and the
\* values of this render the rest of the call works with.
CheckoutStart(s, printRequested) ==
  /\ co[s].pc = "idle"
  /\ ops < MaxOps
  /\ counter + InFlight(co, {"seq"}) < MaxOrders
  /\ printRequested => JobsBegun < MaxJobs
  /\ IF staff[s] = Null THEN
       /\ SetMsg(s, "error", "login") /\ UNCHANGED co
     ELSE IF selectedBarId[s] = NoBar \/ selectedBarOf(selectedBarId[s]) = Null THEN
       /\ SetMsg(s, "error", "bar") /\ UNCHANGED co
     ELSE IF CartEmpty(cart[s]) THEN
       /\ SetMsg(s, "error", "empty") /\ UNCHANGED co
     ELSE
       /\ SetMsg(s, "error", "")
       /\ co' = [co EXCEPT ![s] =
            [pc |-> "seq",
             printRequested |-> printRequested,
             device |-> s,
             staff |-> staff[s],
             bar |-> selectedBarOf(selectedBarId[s]),
             cartLines |-> cart[s],
             paymentMethod |-> paymentMethod[s],
             grossTotal |-> grossTotal(cart[s]),
             taxTotal |-> taxTotal(grossTotal(cart[s])),
             netTotal |-> netTotal(grossTotal(cart[s]), taxTotal(grossTotal(cart[s]))),
             row |-> EmptyRow,
             publicToken |-> <<>>,
             createdAt |-> NoTime,
             orderId |-> 0]]
  /\ ops' = IF co'[s].pc = "idle" THEN ops ELSE ops + 1
  /\ UNCHANGED <<dbVars, report, lr, staff, selectedBarId, cart, paymentMethod, lastReceipt,
                 adminUnlocked, adminUser, vl, av, rp, worker, page,
                 printed, issued, voidLog, adminProof, cartLog, faults>>

\* A finalize that swallows its error.
CheckoutThrow_silent(s) ==
  /\ co' = [co EXCEPT ![s] = CoIdle]
  /\ UNCHANGED msg

\* catch (e) { setError(...) } finally { setCheckoutLoading(false) }
CheckoutThrow(s) ==
  /\ co' = [co EXCEPT ![s] = CoIdle]
  /\ SetMsg(s, "error", "fail")

\* A finalize that goes on with whatever row the sequencer returned.
CheckoutSeqRow_unchecked(s, r, t) ==
  /\ counter' = r.counter
  /\ issued' = IF r.row = EmptyRow THEN issued
               ELSE Append(issued, [row |-> r.row, to |-> s])
  /\ co' = [co EXCEPT ![s].pc = "order",
                       ![s].row = r.row,
                       ![s].publicToken = randomToken(Len(issued) + 1),
                       ![s].createdAt = t]
  /\ UNCHANGED msg

\* The answer r of next_receipt reaches the caller: the row check, the token
\* and the timestamp.
CheckoutSeqRow(s, r, t) ==
  /\ counter' = r.counter
  /\ issued' = IF r.row = EmptyRow THEN issued
               ELSE Append(issued, [row |-> r.row, to |-> s])
  /\ IF RowOk(r.row)
     THEN /\ co' = [co EXCEPT ![s].pc = "order",
                               ![s].row = r.row,
                               ![s].publicToken = randomToken(Len(issued) + 1),
                               ![s].createdAt = t]
          /\ UNCHANGED msg
     ELSE CheckoutThrow(s)

\* await supabase.rpc("next_receipt", { p_event_id: EVENT_ID })
CheckoutSeq(s, t) ==
  /\ co[s].pc = "seq"
  /\ \/ /\ MayFail /\ Fault
        /\ CheckoutThrow(s)
        /\ UNCHANGED <<counter, issued>>
     \/ /\ MayFail /\ Fault
        /\ CheckoutSeqRow(s, [counter |-> counter, row |-> EmptyRow], t)
     \/ /\ UNCHANGED faults
        /\ CheckoutSeqRow(s, next_receipt(counter), t)
  /\ UNCHANGED <<orders, order_items, voids, print_jobs, uiState,
                 vl, av, rp, worker, page, printed, voidLog, adminProof, cartLog, ops>>

\* A finalize that persists the order as already voided.
OrderRow_voided(f, id) ==
  [id |-> id, event_id |-> EVENT_ID, bar_id |-> f.bar.id, device_id |-> f.device,
   cashier_staff_id |-> f.staff.id, cashier_name_snapshot |-> f.staff.name,
   cashier_role_snapshot |-> f.staff.role, receipt_no |-> f.row.receipt_no,
   short_no |-> f.row.short_no, public_token |-> f.publicToken,
   payment_method |-> f.paymentMethod, status |-> "voided",
   gross_total |-> f.grossTotal, tax_rate |-> TaxRatePct, tax_total |-> f.taxTotal,
   net_total |-> f.netTotal, receipt_offered |-> TRUE,
   receipt_printed |-> f.printRequested, created_at |-> f.createdAt,
   voided_at |-> NoTime]

\* The row doCheckout inserts into orders.
OrderRow(f, id) ==
  [id |-> id,
   event_id |-> EVENT_ID,
   bar_id |-> f.bar.id,
   device_id |-> f.device,
   cashier_staff_id |-> f.staff.id,
   cashier_name_snapshot |-> f.staff.name,
   cashier_role_snapshot |-> f.staff.role,
   receipt_no |-> f.row.receipt_no,
   short_no |-> f.row.short_no,
   public_token |-> f.publicToken,
   payment_method |-> f.paymentMethod,
   status |-> "completed",
   gross_total |-> f.grossTotal,
   tax_rate |-> TaxRatePct,
   tax_total |-> f.taxTotal,
   net_total |-> f.netTotal,
   receipt_offered |-> TRUE,
   receipt_printed |-> f.printRequested,
   created_at |-> f.createdAt,
   voided_at |-> NoTime]

\* await supabase.from("orders").insert({...}).select("id").single()
CheckoutOrder(s) ==
  /\ co[s].pc = "order"
  /\ \/ /\ MayFail /\ Fault
        /\ CheckoutThrow(s)
        /\ UNCHANGED orders
     \/ /\ UNCHANGED <<faults, msg>>
        /\ orders' = Append(orders, OrderRow(co[s], Len(orders) + 1))
        /\ co' = [co EXCEPT ![s].pc = "items", ![s].orderId = Len(orders) + 1]
  /\ UNCHANGED <<counter, order_items, voids, print_jobs, uiState,
                 vl, av, rp, worker, page, printed, issued, voidLog, adminProof, cartLog, ops>>

\* itemsRows = cartLines.map(...)
ItemsRows(f) ==
  [i \in 1..Len(f.cartLines) |->
     [order_id |-> f.orderId,
      product_id |-> f.cartLines[i].product.id,
      name_snapshot |-> f.cartLines[i].product.name,
      unit_price_gross |-> f.cartLines[i].product.price_gross,
      qty |-> f.cartLines[i].qty,
      line_total_gross |-> LineTotal(f.cartLines[i])]]

\* await supabase.from("order_items").insert(itemsRows)
CheckoutItems(s) ==
  /\ co[s].pc = "items"
  /\ \/ /\ MayFail /\ Fault
        /\ CheckoutThrow(s)
        /\ UNCHANGED order_items
     \/ /\ UNCHANGED <<faults, msg>>
        /\ order_items' = order_items \o ItemsRows(co[s])
        /\ co' = [co EXCEPT ![s].pc = IF co[s].printRequested THEN "print" ELSE "qr"]
  /\ UNCHANGED <<counter, orders, voids, print_jobs, uiState,
                 vl, av, rp, worker, page, printed, issued, voidLog, adminProof, cartLog, ops>>

\* buildReceiptText(args), with the cashier of the rendering session; the
\* text is kept as its parts, in the order they are written.
buildReceiptText(cashier, args) ==
  [barName |-> args.barName,
   receiptNo |-> args.receiptNo,
   createdAt |-> args.createdAt,
   kassier |-> IF cashier = Null THEN <<"-">> ELSE <<cashier.name, cashier.role>>,
   zahlung |-> IF args.payment = "sumup" THEN "Karte (SumUp)" ELSE "Bar",
   lines |-> args.lines,
   brutto |-> args.gross,
   ust |-> args.tax,
   netto |-> args.net]

CheckoutPayload(f) ==
  buildReceiptText(f.staff,
    [barName |-> f.bar.name,
     receiptNo |-> f.row.receipt_no,
     createdAt |-> f.createdAt,
     payment |-> f.paymentMethod,
     lines |-> [i \in 1..Len(f.cartLines) |->
                  [qty |-> f.cartLines[i].qty,
                   name |-> f.cartLines[i].product.name,
                   lineTotal |-> LineTotal(f.cartLines[i])]],
     gross |-> f.grossTotal,
     tax |-> f.taxTotal,
     net |-> f.netTotal])

\* A job that is inserted as already printed.
PrintJobRow_printed(orderId, payload) ==
  [event_id |-> EVENT_ID, order_id |-> orderId, payload |-> payload,
   status |-> "printed", printed_at |-> 0]

PrintJobRow(orderId, payload) ==
  [event_id |-> EVENT_ID, order_id |-> orderId, payload |-> payload,
   status |-> "queued", printed_at |-> NoTime]

\* await supabase.from("print_jobs").insert({...})
CheckoutPrint(s) ==
  /\ co[s].pc = "print"
  /\ \/ /\ MayFail /\ Fault
        /\ CheckoutThrow(s)
        /\ UNCHANGED print_jobs
     \/ /\ UNCHANGED <<faults, msg>>
        /\ print_jobs' = Append(print_jobs,
             PrintJobRow(co[s].orderId, CheckoutPayload(co[s])))
        /\ co' = [co EXCEPT ![s].pc = "qr"]
  /\ UNCHANGED <<counter, orders, order_items, voids, uiState,
                 vl, av, rp, worker, page, printed, issued, voidLog, adminProof, cartLog, ops>>

\* The ReceiptResponse doCheckout hands to setLastReceipt.
ReceiptOf(f) ==
  [order_id |-> f.orderId,
   receipt_no |-> f.row.receipt_no,
   short_no |-> f.row.short_no,
   public_token |-> f.publicToken,
   receipt_url |-> <<"/r/">> \o f.publicToken,
   gross |-> f.grossTotal,
   tax |-> f.taxTotal,
   net |-> f.netTotal]

\* await QRCode.toDataURL(absUrl), setLastReceipt(...), clearCart()
CheckoutQr(s) ==
  /\ co[s].pc = "qr"
  /\ \/ /\ MayFail /\ Fault
        /\ CheckoutThrow(s)
        /\ UNCHANGED <<lastReceipt, cart>>
     \/ /\ UNCHANGED <<faults, msg>>
        /\ lastReceipt' = [lastReceipt EXCEPT ![s] = ReceiptOf(co[s])]
        /\ cart' = [cart EXCEPT ![s] = <<>>]
        /\ co' = [co EXCEPT ![s] = CoIdle]
  /\ UNCHANGED <<dbVars, report, lr, staff, selectedBarId, paymentMethod,
                 adminUnlocked, adminUser,
                 vl, av, rp, worker, page, printed, issued, voidLog, adminProof, cartLog, ops>>

\* ----------------------------------------------------------- void log
\* Rows of orders a select with these filters returns.
OrdersByReceipt(r) ==
  {i \in 1..Len(orders) : orders[i].event_id = EVENT_ID /\ orders[i].receipt_no = r}

VoidsOf(id) == {i \in 1..Len(voids) : voids[i].order_id = id}

\* An earlier void operation on the order has finished and left it voided.
FinishedVoidOn(id) == \E e \in voidLog : e.order = id /\ e.wrote # "none"

StatusOf(id) == IF id \in 1..Len(orders) THEN orders[id].status ELSE "absent"

\* Void operations that passed their guards: finished ones and those in flight.
VoidOpsBegun ==
  Cardinality(voidLog) + InFlight(vl, {"pin", "update", "insert"})
                       + InFlight(av, {"select", "update", "insert"})

\* ghost: one finished void operation
LogVoid(path, s, f, id, result, wrote) ==
  voidLog' = voidLog \cup
    {[n |-> Cardinality(voidLog) + 1, path |-> path, sess |-> s, order |-> id,
      startStatus |-> f.startStatus, afterVoid |-> f.afterVoid,
      result |-> result, wrote |-> wrote]}

\* A void that also zeroes the totals of the order.
UpdateVoided_zeroed(id, nowIso) ==
  [i \in 1..Len(orders) |->
     IF orders[i].id = id
     THEN [orders[i] EXCEPT !.status = "voided", !.voided_at = nowIso,
                            !.gross_total = 0, !.tax_total = 0, !.net_total = 0]
     ELSE orders[i]]

\* .update({ status: "voided", voided_at: nowIso }).eq("id", id)
UpdateVoided(id, nowIso) ==
  [i \in 1..Len(orders) |->
     IF orders[i].id = id
     THEN [orders[i] EXCEPT !.status = "voided", !.voided_at = nowIso]
     ELSE orders[i]]

\* The latest order the session has persisted (0: none).
LatestOrderOf(s) ==
  LET mine == {i \in 1..Len(orders) : orders[i].device_id = s}
  IN IF mine = {} THEN 0 ELSE CHOOSE i \in mine : \A j \in mine : j <= i

\* ---------------------------------------------------- self-service void
\* voidLastReceiptNoReason up to its first await
VoidLastStart(s) ==
  /\ staff[s] # Null
  /\ vl[s].pc = "idle"
  /\ VoidOpsBegun < MaxVoidOps /\ ops < MaxOps
  /\ IF lastReceipt[s] = Null
     THEN /\ SetMsg(s, "voidMsg", "none")
          /\ UNCHANGED vl
     ELSE /\ SetMsg(s, "voidMsg", "")
          /\ vl' = [vl EXCEPT ![s] =
               [pc |-> "pin",
                lastReceipt |-> lastReceipt[s],
                auth |-> Null,
                nowIso |-> NoTime,
                latest |-> LatestOrderOf(s),
                quiet |-> co[s].pc = "idle",
                startStatus |-> StatusOf(lastReceipt[s].order_id),
                afterVoid |-> FinishedVoidOn(lastReceipt[s].order_id)]]
  /\ ops' = IF vl'[s].pc = "idle" THEN ops ELSE ops + 1
  /\ UNCHANGED <<dbVars, uiState, co, av, rp, worker, page,
                 printed, issued, voidLog, adminProof, cartLog, faults>>

\* return / catch with the message, finally { setVoidLoading(false) }
VoidLastEnd(s, text, result, wrote) ==
  /\ vl' = [vl EXCEPT ![s] = VlIdle]
  /\ SetMsg(s, "voidMsg", text)
  /\ LogVoid("self", s, vl[s], vl[s].lastReceipt.order_id, result, wrote)

\* A void that goes on whatever the PIN check returned.
VoidLastAuth_unchecked(s, auth, t) ==
  /\ vl' = [vl EXCEPT ![s].pc = "update", ![s].auth = auth, ![s].nowIso = t]
  /\ UNCHANGED <<msg, voidLog>>

\* const auth = await checkPin(voidPin); if (!auth) return ...
VoidLastAuth(s, auth, t) ==
  IF auth = Null
  THEN VoidLastEnd(s, "pin", "unauthorized", "none")
  ELSE /\ vl' = [vl EXCEPT ![s].pc = "update", ![s].auth = auth, ![s].nowIso = t]
       /\ UNCHANGED <<msg, voidLog>>

VoidLastPin(s, pin, rpcOk, t) ==
  /\ vl[s].pc = "pin"
  /\ VoidLastAuth(s, checkPin(pin, rpcOk), t)
  /\ UNCHANGED <<dbVars, uiState, co, av, rp, worker, page,
                 printed, issued, adminProof, cartLog, faults, ops>>

\* await supabase.from("orders").update(...).eq("id", lastReceipt.order_id)
VoidLastUpdate(s) ==
  /\ vl[s].pc = "update"
  /\ \/ /\ MayFail /\ Fault
        /\ VoidLastEnd(s, "fail", "error", "none")
        /\ UNCHANGED orders
     \/ /\ UNCHANGED <<faults, msg, voidLog>>
        /\ orders' = UpdateVoided(vl[s].lastReceipt.order_id, vl[s].nowIso)
        /\ vl' = [vl EXCEPT ![s].pc = "insert"]
  /\ UNCHANGED <<counter, order_items, voids, print_jobs, uiState,
                 co, av, rp, worker, page, printed, issued, adminProof, cartLog, ops>>

\* The row voidLastReceiptNoReason inserts into voids.
SelfVoidRow(f) ==
  [order_id |-> f.lastReceipt.order_id,
   voided_by |-> <<f.auth.role, ":", f.auth.name>>,
   reason |-> <<>>]

\* await supabase.from("voids").insert({...})
VoidLastInsert(s) ==
  /\ vl[s].pc = "insert"
  /\ \/ /\ MayFail /\ Fault
        /\ VoidLastEnd(s, "fail", "error", "order")
        /\ UNCHANGED voids
     \/ /\ UNCHANGED faults
        /\ voids' = Append(voids, SelfVoidRow(vl[s]))
        /\ VoidLastEnd(s, "ok", "ok", "both")
  /\ UNCHANGED <<counter, orders, order_items, print_jobs, uiState,
                 co, av, rp, worker, page, printed, issued, adminProof, cartLog, ops>>

\* ------------------------------------------------------- admin unlock
\* An unlock that takes any identity the PIN check returned.
UnlockAccepts_anyone(auth) == auth # Null

\* if (auth?.role === "admin")
UnlockAccepts(auth) == auth # Null /\ auth.role = "admin"

unlockAdminWith(s, auth) ==
  IF UnlockAccepts(auth)
  THEN /\ adminUnlocked' = [adminUnlocked EXCEPT ![s] = TRUE]
       /\ adminUser' = [adminUser EXCEPT ![s] = auth]
       /\ SetMsg(s, "adminMsg", "unlocked")
  ELSE /\ SetMsg(s, "adminMsg", "no_admin_pin")
       /\ UNCHANGED <<adminUnlocked, adminUser>>

\* unlockAdmin: const auth = await checkPin(adminPinInput)
unlockAdmin(s, pin, rpcOk) ==
  /\ staff[s] # Null
  /\ unlockAdminWith(s, checkPin(pin, rpcOk))
  /\ adminProof' =
       IF rpcOk /\ \E r \in check_staff_pin(Trim(pin)) : r.role = "admin"
       THEN [adminProof EXCEPT ![s] = TRUE] ELSE adminProof
  /\ UNCHANGED <<dbVars, report, lr, staff, selectedBarId, cart, paymentMethod, lastReceipt,
                 frameVars, printed, issued, voidLog, cartLog, faults, ops>>

\* A lock that forgets to clear the admin identity.
lockAdmin_keepingUser(s) ==
  /\ staff[s] # Null
  /\ adminUnlocked[s]
  /\ adminUnlocked' = [adminUnlocked EXCEPT ![s] = FALSE]
  /\ adminProof' = [adminProof EXCEPT ![s] = FALSE]
  /\ SetMsg(s, "adminMsg", "locked_now")
  /\ UNCHANGED <<dbVars, report, lr, staff, selectedBarId, cart, paymentMethod, lastReceipt,
                 adminUser, frameVars, printed, issued, voidLog, cartLog, faults, ops>>

lockAdmin(s) ==
  /\ staff[s] # Null
  /\ adminUnlocked[s]
  /\ adminUnlocked' = [adminUnlocked EXCEPT ![s] = FALSE]
  /\ adminUser' = [adminUser EXCEPT ![s] = Null]
  /\ adminProof' = [adminProof EXCEPT ![s] = FALSE]
  /\ SetMsg(s, "adminMsg", "locked_now")
  /\ UNCHANGED <<dbVars, report, lr, staff, selectedBarId, cart, paymentMethod, lastReceipt,
                 frameVars, printed, issued, voidLog, cartLog, faults, ops>>

\* --------------------------------------------------- administrative void
\* The order a receipt number names when the call is made (0: none).
OrderNamed(r) ==
  IF OrdersByReceipt(r) = {} THEN 0 ELSE CHOOSE i \in OrdersByReceipt(r) : TRUE

\* adminVoidByReceipt up to its first await
\* the test of the trimmed reason, if (!reason)
NoReason_never(reason) == FALSE

NoReason(reason) == reason = <<>>

AdminVoidStart(s, receiptText, reasonText) ==
  /\ staff[s] # Null
  /\ av[s].pc = "idle"
  /\ VoidOpsBegun < MaxVoidOps /\ ops < MaxOps
  /\ LET r == Trim(receiptText)
         reason == Trim(reasonText)
     IN IF ~adminUnlocked[s] THEN
          /\ SetMsg(s, "adminMsg", "locked") /\ UNCHANGED av
        ELSE IF r = <<>> THEN
          /\ SetMsg(s, "adminMsg", "no_receipt") /\ UNCHANGED av
        ELSE IF NoReason(reason) THEN
          /\ SetMsg(s, "adminMsg", "no_reason") /\ UNCHANGED av
        ELSE
          /\ SetMsg(s, "adminMsg", "")
          /\ av' = [av EXCEPT ![s] =
               [pc |-> "select", r |-> r, reason |-> reason,
                adminUser |-> adminUser[s],
                o |-> 0, nowIso |-> NoTime,
                proof |-> adminProof[s],
                startStatus |-> StatusOf(OrderNamed(r)),
                afterVoid |-> FinishedVoidOn(OrderNamed(r))]]
  /\ ops' = IF av'[s].pc = "idle" THEN ops ELSE ops + 1
  /\ UNCHANGED <<dbVars, uiState, co, vl, rp, worker, page,
                 printed, issued, voidLog, adminProof, cartLog, faults>>

\* return / catch with the message
AdminVoidEnd(s, text, id, result, wrote) ==
  /\ av' = [av EXCEPT ![s] = AvIdle]
  /\ SetMsg(s, "adminMsg", text)
  /\ LogVoid("admin", s, av[s], id, result, wrote)

\* A void that falls back on the first order when none matches.
AdminVoidFound_first(s, rows, t) ==
  IF orders = <<>>
  THEN AdminVoidEnd(s, "fail", 0, "notfound", "none")
  ELSE LET id == IF rows = {} THEN 1 ELSE CHOOSE i \in rows : TRUE
       IN IF orders[id].status = "voided"
          THEN AdminVoidEnd(s, "already", id, "already", "none")
          ELSE /\ av' = [av EXCEPT ![s].pc = "update", ![s].o = orders[id].id,
                                   ![s].nowIso = t]
               /\ UNCHANGED <<msg, voidLog>>

\* The answer of .select("id,status")...single(): one row, or an error.
AdminVoidFound(s, rows, t) ==
  IF Cardinality(rows) # 1
  THEN AdminVoidEnd(s, "fail", 0, "notfound", "none")
  ELSE LET id == CHOOSE i \in rows : TRUE
       IN IF orders[id].status = "voided"
          THEN AdminVoidEnd(s, "already", id, "already", "none")
          ELSE /\ av' = [av EXCEPT ![s].pc = "update", ![s].o = orders[id].id,
                                   ![s].nowIso = t]
               /\ UNCHANGED <<msg, voidLog>>

AdminVoidSelect(s, t) ==
  /\ av[s].pc = "select"
  /\ \/ /\ MayFail /\ Fault
        /\ AdminVoidEnd(s, "fail", OrderNamed(av[s].r), "error", "none")
     \/ /\ UNCHANGED faults
        /\ AdminVoidFound(s, OrdersByReceipt(av[s].r), t)
  /\ UNCHANGED <<dbVars, uiState, co, vl, rp, worker, page, printed, issued, adminProof, cartLog, ops>>

\* await supabase.from("orders").update(...).eq("id", o.id)
AdminVoidUpdate(s) ==
  /\ av[s].pc = "update"
  /\ \/ /\ MayFail /\ Fault
        /\ AdminVoidEnd(s, "fail", av[s].o, "error", "none")
        /\ UNCHANGED orders
     \/ /\ UNCHANGED <<faults, msg, voidLog>>
        /\ orders' = UpdateVoided(av[s].o, av[s].nowIso)
        /\ av' = [av EXCEPT ![s].pc = "insert"]
  /\ UNCHANGED <<counter, order_items, voids, print_jobs, uiState,
                 co, vl, rp, worker, page, printed, issued, adminProof, cartLog, ops>>

\* A void record that names no one.
AdminVoidRow_anonymous(f) ==
  [order_id |-> f.o, voided_by |-> <<"admin">>, reason |-> f.reason]

\* The row adminVoidByReceipt inserts into voids.
AdminVoidRow(f) ==
  [order_id |-> f.o,
   voided_by |-> IF f.adminUser # Null
                 THEN <<f.adminUser.role, ":", f.adminUser.name>> ELSE <<"admin">>,
   reason |-> f.reason]

\* await supabase.from("voids").insert({...})
AdminVoidInsert(s) ==
  /\ av[s].pc = "insert"
  /\ \/ /\ MayFail /\ Fault
        /\ AdminVoidEnd(s, "fail", av[s].o, "error", "order")
        /\ UNCHANGED voids
     \/ /\ UNCHANGED faults
        /\ voids' = Append(voids, AdminVoidRow(av[s]))
        /\ AdminVoidEnd(s, "ok", av[s].o, "ok", "both")
  /\ UNCHANGED <<counter, orders, order_items, print_jobs, uiState,
                 co, vl, rp, worker, page, printed, issued, adminProof, cartLog, ops>>

\* -------------------------------------------------------------- reprint
\* adminReprintByReceipt up to its first await
\* A reprint that does not ask whether the panel is unlocked.
ReprintStart_unguarded(s, receiptText) ==
  /\ staff[s] # Null
  /\ rp[s].pc = "idle"
  /\ JobsBegun < MaxJobs /\ ops < MaxOps
  /\ LET r == Trim(receiptText)
     IN IF r = <<>> THEN
          /\ SetMsg(s, "adminMsg", "no_receipt") /\ UNCHANGED rp
        ELSE
          /\ SetMsg(s, "adminMsg", "")
          /\ rp' = [rp EXCEPT ![s] =
               [pc |-> "select", r |-> r, staff |-> staff[s],
                o |-> Null, payload |-> Null]]
  /\ ops' = IF rp'[s].pc = "idle" THEN ops ELSE ops + 1
  /\ UNCHANGED <<dbVars, uiState, co, vl, av, worker, page,
                 printed, issued, voidLog, adminProof, cartLog, faults>>

\* adminReprintByReceipt up to its first await
ReprintStart(s, receiptText) ==
  /\ staff[s] # Null
  /\ rp[s].pc = "idle"
  /\ JobsBegun < MaxJobs /\ ops < MaxOps
  /\ LET r == Trim(receiptText)
     IN IF ~adminUnlocked[s] THEN
          /\ SetMsg(s, "adminMsg", "locked") /\ UNCHANGED rp
        ELSE IF r = <<>> THEN
          /\ SetMsg(s, "adminMsg", "no_receipt") /\ UNCHANGED rp
        ELSE
          /\ SetMsg(s, "adminMsg", "")
          /\ rp' = [rp EXCEPT ![s] =
               [pc |-> "select", r |-> r, staff |-> staff[s],
                o |-> Null, payload |-> Null]]
  /\ ops' = IF rp'[s].pc = "idle" THEN ops ELSE ops + 1
  /\ UNCHANGED <<dbVars, uiState, co, vl, av, worker, page,
                 printed, issued, voidLog, adminProof, cartLog, faults>>

ReprintEnd(s, text) ==
  /\ rp' = [rp EXCEPT ![s] = RpIdle]
  /\ SetMsg(s, "adminMsg", text)

\* .select("id,bar_id,receipt_no,created_at,payment_method,gross_total,
\*          tax_total,net_total")...single()
ReprintFound(s, rows) ==
  IF Cardinality(rows) # 1
  THEN ReprintEnd(s, "fail")
  ELSE LET o == orders[CHOOSE i \in rows : TRUE]
       IN /\ rp' = [rp EXCEPT ![s].pc = "items",
                              ![s].o = [id |-> o.id, bar_id |-> o.bar_id,
                                        receipt_no |-> o.receipt_no,
                                        created_at |-> o.created_at,
                                        payment_method |-> o.payment_method,
                                        gross_total |-> o.gross_total,
                                        tax_total |-> o.tax_total,
                                        net_total |-> o.net_total]]
          /\ UNCHANGED msg

ReprintSelect(s) ==
  /\ rp[s].pc = "select"
  /\ \/ /\ MayFail /\ Fault
        /\ ReprintEnd(s, "fail")
     \/ /\ UNCHANGED faults
        /\ ReprintFound(s, OrdersByReceipt(rp[s].r))
  /\ UNCHANGED <<dbVars, uiState, co, vl, av, worker, page,
                 printed, issued, voidLog, adminProof, cartLog, ops>>

\* Rows of order_items of one order, in table order.
RECURSIVE ItemsOf(_, _)
ItemsOf(rows, id) ==
  IF rows = <<>> THEN <<>>
  ELSE IF Head(rows).order_id = id
       THEN <<Head(rows)>> \o ItemsOf(Tail(rows), id)
       ELSE ItemsOf(Tail(rows), id)

\* bars.find((b) => b.id === o.bar_id)?.name ?? "Bar"
ReprintBarName(barId) ==
  IF selectedBarOf(barId) = Null THEN "Bar" ELSE selectedBarOf(barId).name

ReprintPayload(f, it) ==
  buildReceiptText(f.staff,
    [barName |-> ReprintBarName(f.o.bar_id),
     receiptNo |-> f.o.receipt_no,
     createdAt |-> f.o.created_at,
     payment |-> f.o.payment_method,
     lines |-> [i \in 1..Len(it) |->
                  [qty |-> it[i].qty, name |-> it[i].name_snapshot,
                   lineTotal |-> it[i].line_total_gross]],
     gross |-> f.o.gross_total,
     tax |-> f.o.tax_total,
     net |-> f.o.net_total])

\* await supabase.from("order_items").select(...).eq("order_id", o.id)
ReprintItems(s) ==
  /\ rp[s].pc = "items"
  /\ \/ /\ MayFail /\ Fault
        /\ ReprintEnd(s, "fail")
     \/ /\ UNCHANGED <<faults, msg>>
        /\ rp' = [rp EXCEPT ![s].pc = "insert",
                            ![s].payload =
                               ReprintPayload(rp[s], ItemsOf(order_items, rp[s].o.id))]
  /\ UNCHANGED <<dbVars, uiState, co, vl, av, worker, page,
                 printed, issued, voidLog, adminProof, cartLog, ops>>

\* await supabase.from("print_jobs").insert({...})
ReprintInsert(s) ==
  /\ rp[s].pc = "insert"
  /\ \/ /\ MayFail /\ Fault
        /\ ReprintEnd(s, "fail")
        /\ UNCHANGED print_jobs
     \/ /\ UNCHANGED faults
        /\ print_jobs' = Append(print_jobs, PrintJobRow(rp[s].o.id, rp[s].payload))
        /\ ReprintEnd(s, "reprint_ok")
  /\ UNCHANGED <<counter, orders, order_items, voids, uiState, co, vl, av, worker, page,
                 printed, issued, voidLog, adminProof, cartLog, ops>>

\* --------------------------------------------------------------- report
\* .eq("event_id", EVENT_ID).eq("status", "completed") and, for "today",
\* .gte("created_at", start)
ReportOrders_anyStatus(range, start) ==
  SelectSeq(orders,
    LAMBDA o : /\ o.event_id = EVENT_ID
               /\ (range = "today" => o.created_at >= start))

ReportOrders(range, start) ==
  SelectSeq(orders,
    LAMBDA o : /\ o.event_id = EVENT_ID
               /\ o.status = "completed"
               /\ (range = "today" => o.created_at >= start))

RECURSIVE SumGross(_)
SumGross(rows) == IF rows = <<>> THEN 0 ELSE Head(rows).gross_total + SumGross(Tail(rows))
RECURSIVE SumTax(_)
SumTax(rows) == IF rows = <<>> THEN 0 ELSE Head(rows).tax_total + SumTax(Tail(rows))
RECURSIVE SumNet(_)
SumNet(rows) == IF rows = <<>> THEN 0 ELSE Head(rows).net_total + SumNet(Tail(rows))

ReportTotals(rows) ==
  [brutto |-> round2(SumGross(rows), 1),
   ust |-> round2(SumTax(rows), 1),
   netto |-> round2(SumNet(rows), 1),
   bons |-> Len(rows)]

\* bars.find((b) => b.id === o.bar_id)?.name ?? "Unbekannt"
ReportBarName(barId) ==
  IF selectedBarOf(barId) = Null THEN "Unbekannt" ELSE selectedBarOf(barId).name

\* barMap, a Map in insertion order: one entry per stall name
RECURSIVE BarMap(_, _)
BarMap(rows, acc) ==
  IF rows = <<>> THEN acc
  ELSE LET o == Head(rows)
           name == ReportBarName(o.bar_id)
           at == {i \in 1..Len(acc) : acc[i].bar = name}
       IN IF at = {}
          THEN BarMap(Tail(rows),
                 Append(acc, [bar |-> name, brutto |-> round2(o.gross_total, 1), bons |-> 1]))
          ELSE BarMap(Tail(rows),
                 [i \in 1..Len(acc) |->
                    IF i \in at
                    THEN [acc[i] EXCEPT !.brutto = round2(acc[i].brutto + o.gross_total, 1),
                                        !.bons = acc[i].bons + 1]
                    ELSE acc[i]])

\* prodMap: one entry per name snapshot
RECURSIVE ProdMap(_, _)
ProdMap(rows, acc) ==
  IF rows = <<>> THEN acc
  ELSE LET it == Head(rows)
           at == {i \in 1..Len(acc) : acc[i].produkt = it.name_snapshot}
       IN IF at = {}
          THEN ProdMap(Tail(rows),
                 Append(acc, [produkt |-> it.name_snapshot, menge |-> it.qty,
                              brutto |-> round2(it.line_total_gross, 1)]))
          ELSE ProdMap(Tail(rows),
                 [i \in 1..Len(acc) |->
                    IF i \in at
                    THEN [acc[i] EXCEPT !.menge = acc[i].menge + it.qty,
                                        !.brutto = round2(acc[i].brutto + it.line_total_gross, 1)]
                    ELSE acc[i]])

\* .sort((a, b) => b.brutto - a.brutto): descending, equal entries keep
\* their order
RECURSIVE InsertDesc(_, _)
InsertDesc(x, sorted) ==
  IF sorted = <<>> THEN <<x>>
  ELSE IF Head(sorted).brutto >= x.brutto
       THEN <<Head(sorted)>> \o InsertDesc(x, Tail(sorted))
       ELSE <<x>> \o sorted

\* The list left in the order of the Map.
SortDesc_unsorted(rows) == rows

\* .sort((a, b) => b.brutto - a.brutto)
RECURSIVE SortDesc(_)
SortDesc(rows) ==
  IF rows = <<>> THEN <<>>
  ELSE InsertDesc(rows[Len(rows)], SortDesc(SubSeq(rows, 1, Len(rows) - 1)))

\* .from("order_items").select(...).in("order_id", ids)
ItemsIn(ids) == SelectSeq(order_items, LAMBDA it : it.order_id \in ids)

\* loadReport(range) up to its first await; start is today's midnight on
\* the device's clock
LoadReportStart(s, range, start) ==
  /\ staff[s] # Null
  /\ lr[s].pc = "idle"
  /\ ops < MaxOps
  /\ IF ~adminUnlocked[s]
     THEN /\ report' = [report EXCEPT ![s] = [NoReport EXCEPT !.error = "locked"]]
          /\ UNCHANGED <<lr, ops>>
     ELSE /\ report' = [report EXCEPT ![s] = NoReport]
          /\ lr' = [lr EXCEPT ![s] = [pc |-> "orders", range |-> range,
                                      start |-> start, ids |-> {}]]
          /\ ops' = ops + 1
  /\ UNCHANGED <<dbVars, staff, selectedBarId, cart, paymentMethod, lastReceipt,
                 adminUnlocked, adminUser, msg, frameVars,
                 printed, issued, voidLog, adminProof, cartLog, faults>>

\* catch (e) { setReportError(...) } finally { setReportLoading(false) }
LoadReportThrow(s) ==
  /\ report' = [report EXCEPT ![s].error = "fail"]
  /\ lr' = [lr EXCEPT ![s] = LrIdle]

\* const { data: orders, error: oErr } = await q; totals and byBar
LoadReportOrders(s) ==
  /\ lr[s].pc = "orders"
  /\ \/ /\ MayFail /\ Fault
        /\ LoadReportThrow(s)
     \/ /\ UNCHANGED faults
        /\ LET rows == ReportOrders(lr[s].range, lr[s].start)
               ids == {rows[i].id : i \in 1..Len(rows)}
           IN /\ report' = [report EXCEPT
                   ![s].totals = ReportTotals(rows),
                   ![s].byBar = SortDesc(BarMap(rows, <<>>))]
              /\ lr' = [lr EXCEPT ![s] =
                   IF ids = {} THEN LrIdle
                   ELSE [lr[s] EXCEPT !.pc = "items", !.ids = ids]]
  /\ UNCHANGED <<dbVars, staff, selectedBarId, cart, paymentMethod, lastReceipt,
                 adminUnlocked, adminUser, msg, frameVars,
                 printed, issued, voidLog, adminProof, cartLog, ops>>

\* const { data: items, error: iErr } = await ...; byProduct
LoadReportItems(s) ==
  /\ lr[s].pc = "items"
  /\ \/ /\ MayFail /\ Fault
        /\ LoadReportThrow(s)
     \/ /\ UNCHANGED faults
        /\ report' = [report EXCEPT
             ![s].byProduct = SortDesc(ProdMap(ItemsIn(lr[s].ids), <<>>))]
        /\ lr' = [lr EXCEPT ![s] = LrIdle]
  /\ UNCHANGED <<dbVars, staff, selectedBarId, cart, paymentMethod, lastReceipt,
                 adminUnlocked, adminUser, msg, frameVars,
                 printed, issued, voidLog, adminProof, cartLog, ops>>

\* --------------------------------------------------------- receipt page
\* getReceiptTokenFromPath(): the path after "/r/", trimmed; null when empty
getReceiptTokenFromPath(path) == Trim(path)

\* The columns ReceiptPage selects of an order and of an item.
ReceiptOrderRow(o) ==
  [id |-> o.id, receipt_no |-> o.receipt_no, created_at |-> o.created_at,
   payment_method |-> o.payment_method, gross_total |-> o.gross_total,
   tax_total |-> o.tax_total, net_total |-> o.net_total, status |-> o.status]

ReceiptItemRows(rows) ==
  [i \in 1..Len(rows) |->
     [order_id |-> rows[i].order_id, name_snapshot |-> rows[i].name_snapshot,
      qty |-> rows[i].qty, line_total_gross |-> rows[i].line_total_gross]]

\* catch (e) { setError(...) } finally { setLoading(false) }
ReceiptPageThrow ==
  page' = [page EXCEPT !.pc = "done", !.error = "fail", !.loading = FALSE]

\* The page is opened at a path: the component mounts and its effect runs
\* up to the first await.
ReceiptPageOpen(path) ==
  /\ page.pc \in {"idle", "done"}
  /\ LET token == getReceiptTokenFromPath(path)
     IN page' = IF token = <<>>
                THEN [PageInit EXCEPT !.pc = "done", !.error = "invalid",
                                      !.loading = FALSE]
                ELSE [PageInit EXCEPT !.pc = "order", !.token = token]
  /\ UNCHANGED <<dbVars, uiVars, co, vl, av, rp, worker, ghostVars>>

\* await supabase.from("orders").select(...).eq("public_token", token).single()
ReceiptPageOrder ==
  /\ page.pc = "order"
  /\ LET rows == SelectSeq(orders, LAMBDA o : o.public_token = page.token)
     IN \/ /\ MayFail /\ Fault
           /\ ReceiptPageThrow
        \/ /\ UNCHANGED faults
           /\ IF Len(rows) # 1 THEN ReceiptPageThrow
              ELSE page' = [page EXCEPT !.pc = "items",
                                        !.o = ReceiptOrderRow(rows[1])]
  /\ UNCHANGED <<dbVars, uiVars, co, vl, av, rp, worker,
                 printed, issued, voidLog, adminProof, cartLog, ops>>

\* await supabase.from("order_items").select(...).eq("order_id", o.id);
\* setOrder(o); setItems(it ?? [])
ReceiptPageItems ==
  /\ page.pc = "items"
  /\ \/ /\ MayFail /\ Fault
        /\ ReceiptPageThrow
     \/ /\ UNCHANGED faults
        /\ page' = [page EXCEPT !.pc = "done", !.loading = FALSE,
                                !.order = page.o,
                                !.items = ReceiptItemRows(ItemsOf(order_items, page.o.id))]
  /\ UNCHANGED <<dbVars, uiVars, co, vl, av, rp, worker,
                 printed, issued, voidLog, adminProof, cartLog, ops>>

\* --------------------------------------------------------- print worker
\* .eq("status", "queued").order("created_at", { ascending: true }).limit(1)
\* A select that only ever sees the first row of the table.
QueuedJobs_oldestOnly ==
  {i \in 1..Len(print_jobs) : print_jobs[i].status = "queued" /\ i = 1}

\* .from("print_jobs").select("*").eq("status", "queued")
QueuedJobs == {i \in 1..Len(print_jobs) : print_jobs[i].status = "queued"}
\* The queue read from its young end.
FirstQueued_latest == CHOOSE i \in QueuedJobs : \A j \in QueuedJobs : i >= j

\* .order("created_at", { ascending: true }).limit(1): rows are appended in
\* the order of their creation time
FirstQueued == CHOOSE i \in QueuedJobs : \A j \in QueuedJobs : i <= j

\* pollPrintJobs: the select, and console.log(job.payload)
WorkerPoll(w) ==
  /\ worker[w].pc = "idle"
  /\ \/ /\ MayFail /\ Fault
        /\ UNCHANGED <<worker, printed>>
     \/ /\ UNCHANGED faults
        /\ QueuedJobs # {}
        /\ worker' = [worker EXCEPT ![w] = [pc |-> "update", job |-> FirstQueued]]
        /\ printed' = Append(printed, FirstQueued)
  /\ UNCHANGED <<dbVars, uiVars, co, vl, av, rp, page, issued, voidLog, adminProof, cartLog, ops>>

\* .update({ status: "printed", printed_at: ... }).eq("id", job.id)
WorkerUpdate(w, t) ==
  /\ worker[w].pc = "update"
  /\ \/ /\ MayFail /\ Fault
        /\ UNCHANGED print_jobs
     \/ /\ UNCHANGED faults
        /\ print_jobs' = [print_jobs EXCEPT ![worker[w].job].status = "printed",
                                            ![worker[w].job].printed_at = t]
  /\ worker' = [worker EXCEPT ![w] = WorkerIdle]
  /\ UNCHANGED <<counter, orders, order_items, voids, uiVars, co, vl, av, rp, page,
                 printed, issued, voidLog, adminProof, cartLog, ops>>

\* ------------------------------------------------------ specifications
\* No handler of the session is between two of its awaits.
Quiet(s) ==
  /\ co[s].pc = "idle" /\ vl[s].pc = "idle"
  /\ av[s].pc = "idle" /\ rp[s].pc = "idle" /\ lr[s].pc = "idle"

\* The stall a device stands at.
HomeBar(s) == IF s = "s1" THEN "b1" ELSE "b2"

StaffPin == <<"1">>
AdminPin == <<" ", "9", " ">>
WrongPin == <<"0">>

\* Spec: the sale.  Two devices, each at its stall, finalize concurrently;
\* the operator acts while no handler of the session is in flight, and the
\* handlers of the two sessions interleave at every persistence call.
Sale(s) ==
  \/ Quiet(s) /\ \E pin \in {StaffPin, WrongPin} : doLogin(s, pin, TRUE)
  \/ Quiet(s) /\ chooseBar(s, HomeBar(s))
  \/ Quiet(s) /\ cart[s] = <<>> /\ \E p \in Products : addToCart(s, p)
  \/ Quiet(s) /\ \E pr \in BOOLEAN : CheckoutStart(s, pr)
  \/ CheckoutSeq(s, 0)
  \/ CheckoutOrder(s)
  \/ CheckoutItems(s)
  \/ CheckoutPrint(s)
  \/ CheckoutQr(s)

Next == \E s \in Sessions : Sale(s)

Spec == Init /\ [][Next]_vars

\* SpecVoid: the void and audit workflow.  The device s1 sells at its stall
\* and voids its last receipt; both devices hold the admin panel and void by
\* receipt number.
ReceiptTexts == {<<" ">> \o FormatReceiptNo(1), FormatReceiptNo(2) \o <<" ">>}
ReasonTexts == {<<" ", "x">>}
\* inputs left empty or filled with blanks only
BlankTexts == {<<>>, <<" ">>}

Cashier(s) ==
  \/ Quiet(s) /\ chooseBar(s, HomeBar(s))
  \/ Quiet(s) /\ cart[s] = <<>> /\ addToCart(s, CHOOSE p \in Products : p.id = "p1")
  \/ Quiet(s) /\ newOrder(s)
  \/ Quiet(s) /\ CheckoutStart(s, FALSE)
  \/ CheckoutSeq(s, 0)
  \/ CheckoutOrder(s)
  \/ CheckoutItems(s)
  \/ CheckoutQr(s)
  \/ Quiet(s) /\ VoidLastStart(s)
  \/ \E pin \in {StaffPin, WrongPin}, ok \in BOOLEAN : VoidLastPin(s, pin, ok, MaxTime)
  \/ VoidLastUpdate(s)
  \/ VoidLastInsert(s)

Admin(s) ==
  \/ Quiet(s) /\ \E ok \in BOOLEAN : doLogin(s, StaffPin, ok)
  \/ Quiet(s) /\ \E pin \in {StaffPin, AdminPin}, ok \in BOOLEAN : unlockAdmin(s, pin, ok)
  \/ Quiet(s) /\ lockAdmin(s)
  \/ Quiet(s) /\ adminUnlocked[s]
       /\ \E r \in ReceiptTexts, why \in ReasonTexts : AdminVoidStart(s, r, why)
  \/ AdminVoidSelect(s, MaxTime)
  \/ AdminVoidUpdate(s)
  \/ AdminVoidInsert(s)

NextVoid ==
  \/ Cashier("s1")
  \/ \E s \in Sessions : Admin(s)

SpecVoid == Init /\ [][NextVoid]_vars

\* SpecSerial: every operation that reads or writes the tables, one handler
\* at a time: the device s1 sells with a printed receipt and voids its last
\* receipt; the device s2 holds the admin panel, unlocked by an admin, and
\* voids, reprints and reports; one worker prints.  The panel's buttons are
\* disabled while it is locked.
AllQuiet == (\A s \in Sessions : Quiet(s)) /\ (\A w \in Workers : worker[w].pc = "idle")

Till(s) ==
  \/ Quiet(s) /\ doLogin(s, StaffPin, TRUE)
  \/ Quiet(s) /\ chooseBar(s, HomeBar(s))
  \/ Quiet(s) /\ cart[s] = <<>> /\ addToCart(s, CHOOSE p \in Products : p.id = "p1")
  \/ Quiet(s) /\ newOrder(s)
  \/ AllQuiet /\ CheckoutStart(s, TRUE)
  \/ CheckoutSeq(s, 0)
  \/ CheckoutOrder(s)
  \/ CheckoutItems(s)
  \/ CheckoutPrint(s)
  \/ CheckoutQr(s)
  \/ AllQuiet /\ VoidLastStart(s)
  \/ \E pin \in {StaffPin, WrongPin} : VoidLastPin(s, pin, TRUE, MaxTime)
  \/ VoidLastUpdate(s)
  \/ VoidLastInsert(s)

Panel(s) ==
  \/ Quiet(s) /\ doLogin(s, AdminPin, TRUE)
  \/ Quiet(s) /\ ~adminUnlocked[s] /\ unlockAdmin(s, AdminPin, TRUE)
  \/ AllQuiet /\ adminUnlocked[s]
       /\ \E r \in ReceiptTexts, why \in ReasonTexts : AdminVoidStart(s, r, why)
  \/ AdminVoidSelect(s, MaxTime)
  \/ AdminVoidUpdate(s)
  \/ AdminVoidInsert(s)
  \/ AllQuiet /\ adminUnlocked[s] /\ \E r \in ReceiptTexts : ReprintStart(s, r)
  \/ ReprintSelect(s)
  \/ ReprintItems(s)
  \/ ReprintInsert(s)
  \/ AllQuiet /\ adminUnlocked[s]
       /\ \E range \in {"all", "today"} : LoadReportStart(s, range, MaxTime)
  \/ LoadReportOrders(s)
  \/ LoadReportItems(s)

NextSerial ==
  \/ Till("s1")
  \/ Panel("s2")
  \/ AllQuiet /\ WorkerPoll("w1")
  \/ WorkerUpdate("w1", MaxTime)

SpecSerial == Init /\ [][NextSerial]_vars

\* SpecAdmin: the admin panel.  The device s1 sells; on the device s2
\* cashiers and admins log in and out, try staff, admin and wrong PINs at the
\* unlock field (also with a failing PIN check), lock the panel, also while
\* a void is in flight, and call the administrative void, locked or not.
Seller(s) ==
  \/ Quiet(s) /\ doLogin(s, StaffPin, TRUE)
  \/ Quiet(s) /\ chooseBar(s, HomeBar(s))
  \/ Quiet(s) /\ cart[s] = <<>> /\ addToCart(s, CHOOSE p \in Products : p.id = "p1")
  \/ Quiet(s) /\ CheckoutStart(s, FALSE)
  \/ CheckoutSeq(s, 0)
  \/ CheckoutOrder(s)
  \/ CheckoutItems(s)
  \/ CheckoutQr(s)

Desk(s) ==
  \/ Quiet(s) /\ \E pin \in {StaffPin, AdminPin} : doLogin(s, pin, TRUE)
  \/ Quiet(s) /\ doLogout(s)
  \/ ~adminUnlocked[s]
       /\ \E pin \in {StaffPin, AdminPin, WrongPin}, ok \in BOOLEAN : unlockAdmin(s, pin, ok)
  \/ lockAdmin(s)
  \/ Quiet(s)
       /\ \E r \in ReceiptTexts \cup {<<>>}, why \in ReasonTexts \cup BlankTexts :
            AdminVoidStart(s, r, why)
  \/ AdminVoidSelect(s, MaxTime)
  \/ AdminVoidUpdate(s)
  \/ AdminVoidInsert(s)

NextAdmin == Seller("s1") \/ Desk("s2")

SpecAdmin == Init /\ [][NextAdmin]_vars

\* ------------------------------------------------- the PIN of a void
\* One cashier sells and voids the last receipt, typing any of the PINs,
\* the RPC answering or not.
Voider(s) ==
  \/ Quiet(s) /\ doLogin(s, StaffPin, TRUE)
  \/ Quiet(s) /\ chooseBar(s, HomeBar(s))
  \/ Quiet(s) /\ cart[s] = <<>> /\ addToCart(s, CHOOSE p \in Products : p.id = "p1")
  \/ Quiet(s) /\ CheckoutStart(s, FALSE)
  \/ CheckoutSeq(s, 0)
  \/ CheckoutOrder(s)
  \/ CheckoutItems(s)
  \/ CheckoutQr(s)
  \/ Quiet(s) /\ VoidLastStart(s)
  \/ \E pin \in PinInputs, ok \in BOOLEAN : VoidLastPin(s, pin, ok, MaxTime)
  \/ VoidLastUpdate(s)
  \/ VoidLastInsert(s)

NextPin == \E s \in Sessions : Voider(s)

SpecPin == Init /\ [][NextPin]_vars

\* ----------------------------------------------------------- reports
\* A stall sells either product at either time; the office voids by
\* receipt number and runs the report over either range.
Stall(s) ==
  \/ Quiet(s) /\ doLogin(s, StaffPin, TRUE)
  \/ Quiet(s) /\ chooseBar(s, HomeBar(s))
  \/ Quiet(s) /\ cart[s] = <<>> /\ \E p \in ProductsOf(selectedBarId[s]) : addToCart(s, p)
  \/ Quiet(s) /\ CheckoutStart(s, FALSE)
  \/ \E t \in Times : CheckoutSeq(s, t)
  \/ CheckoutOrder(s)
  \/ CheckoutItems(s)
  \/ CheckoutQr(s)

Office(s) ==
  \/ Quiet(s) /\ doLogin(s, AdminPin, TRUE)
  \/ Quiet(s) /\ ~adminUnlocked[s] /\ unlockAdmin(s, AdminPin, TRUE)
  \/ Quiet(s) /\ adminUnlocked[s]
       /\ \E r \in ReceiptTexts, why \in ReasonTexts : AdminVoidStart(s, r, why)
  \/ AdminVoidSelect(s, MaxTime)
  \/ AdminVoidUpdate(s)
  \/ AdminVoidInsert(s)
  \/ Quiet(s) /\ adminUnlocked[s]
       /\ \E range \in {"all", "today"}, start \in Times : LoadReportStart(s, range, start)
  \/ LoadReportOrders(s)
  \/ LoadReportItems(s)

NextReport == Stall("s1") \/ Office("s2")

SpecReport == Init /\ [][NextReport]_vars

\* ----------------------------------------------------------- readers
\* A cashier sells and voids the last receipt while the office runs the
\* report and a customer opens the receipt page: at no path, at a path
\* nobody was given, or at the path of a receipt a device shows.
UnknownPath == <<"t", "0">>

ShownPaths ==
  {<<" ">> \o lastReceipt[s].public_token : s \in {t \in Sessions : lastReceipt[t] # Null}}

Counter(s) ==
  \/ Quiet(s) /\ doLogin(s, StaffPin, TRUE)
  \/ Quiet(s) /\ chooseBar(s, HomeBar(s))
  \/ Quiet(s) /\ cart[s] = <<>> /\ addToCart(s, CHOOSE p \in Products : p.id = "p1")
  \/ Quiet(s) /\ CheckoutStart(s, FALSE)
  \/ CheckoutSeq(s, 0)
  \/ CheckoutOrder(s)
  \/ CheckoutItems(s)
  \/ CheckoutQr(s)
  \/ Quiet(s) /\ VoidLastStart(s)
  \/ VoidLastPin(s, StaffPin, TRUE, MaxTime)
  \/ VoidLastUpdate(s)
  \/ VoidLastInsert(s)

Reader(s) ==
  \/ Quiet(s) /\ doLogin(s, AdminPin, TRUE)
  \/ Quiet(s) /\ ~adminUnlocked[s] /\ unlockAdmin(s, AdminPin, TRUE)
  \/ Quiet(s) /\ adminUnlocked[s] /\ LoadReportStart(s, "all", 0)
  \/ LoadReportOrders(s)
  \/ LoadReportItems(s)

Customer ==
  \/ \E path \in {<<>>, UnknownPath} \cup ShownPaths : ReceiptPageOpen(path)
  \/ ReceiptPageOrder
  \/ ReceiptPageItems

NextRead == Counter("s1") \/ Reader("s2") \/ Customer

SpecRead == Init /\ [][NextRead]_vars

\* ------------------------------------------------------------- carts
\* Each device fills, changes and empties its cart with the products of
\* its stall; inc and dec are called for any product id.  The totals are
\* values of the render, functions of the cart.
Basket(s) ==
  \/ staff[s] = Null /\ doLogin(s, StaffPin, TRUE)
  \/ selectedBarId[s] = NoBar /\ chooseBar(s, HomeBar(s))
  \/ \E p \in ProductsOf(selectedBarId[s]) : addToCart(s, p)
  \/ \E id \in ProductIds : inc(s, id)
  \/ \E id \in ProductIds : dec(s, id)
  \/ clearCart(s)

NextCart == \E s \in Sessions : Basket(s)

SpecCart == Init /\ [][NextCart]_vars

\* ------------------------------------------------------ stall and cashier
\* One device: cashiers log in and out, choose and leave either stall, fill
\* and empty the cart and finalize, also while a finalize is in flight.
Device(s) ==
  \/ \E pin \in {StaffPin, AdminPin} : doLogin(s, pin, TRUE)
  \/ doLogout(s)
  \/ \E id \in BarIds : chooseBar(s, id)
  \/ resetBar(s)
  \/ cart[s] = <<>> /\ \E p \in ProductsOf(selectedBarId[s]) : addToCart(s, p)
  \/ clearCart(s)
  \/ CheckoutStart(s, FALSE)
  \/ CheckoutSeq(s, 0)
  \/ CheckoutOrder(s)
  \/ CheckoutItems(s)
  \/ CheckoutQr(s)

NextStall == Device("s1")

SpecStall == Init /\ [][NextStall]_vars

\* SpecPrint: the print queue.  The device s1 sells with a printed receipt,
\* the device s2 reprints from the unlocked admin panel, and the worker
\* polls on its timer while it likes: a poll may start before the one
\* before it has marked its job (w2), and everything interleaves at every
\* persistence call.
Press(s) ==
  \/ Quiet(s) /\ doLogin(s, StaffPin, TRUE)
  \/ Quiet(s) /\ chooseBar(s, HomeBar(s))
  \/ Quiet(s) /\ cart[s] = <<>> /\ addToCart(s, CHOOSE p \in Products : p.id = "p1")
  \/ Quiet(s) /\ newOrder(s)
  \/ Quiet(s) /\ CheckoutStart(s, TRUE)
  \/ CheckoutSeq(s, 0)
  \/ CheckoutOrder(s)
  \/ CheckoutItems(s)
  \/ CheckoutPrint(s)
  \/ CheckoutQr(s)

Again(s) ==
  \/ Quiet(s) /\ doLogin(s, AdminPin, TRUE)
  \/ Quiet(s) /\ ~adminUnlocked[s] /\ unlockAdmin(s, AdminPin, TRUE)
  \/ Quiet(s) /\ adminUnlocked[s] /\ \E r \in ReceiptTexts : ReprintStart(s, r)
  \/ ReprintSelect(s)
  \/ ReprintItems(s)
  \/ ReprintInsert(s)

NextPrint ==
  \/ Press("s1")
  \/ Again("s2")
  \/ \E w \in Workers : WorkerPoll(w)
  \/ \E w \in Workers : WorkerUpdate(w, MaxTime)

SpecPrint == Init /\ [][NextPrint]_vars

\* SpecTally: the report's breakdowns.  The device s1 moves between the
\* stalls and sells one product at a time, before or after midnight; the
\* office s2 voids by receipt number and runs the report over both ranges,
\* while s1 goes on selling.
Stand(s) ==
  \/ Quiet(s) /\ doLogin(s, StaffPin, TRUE)
  \/ Quiet(s) /\ \E id \in BarIds : chooseBar(s, id)
  \/ Quiet(s) /\ cart[s] = <<>> /\ resetBar(s)
  \/ Quiet(s) /\ cart[s] = <<>> /\ \E p \in ProductsOf(selectedBarId[s]) : addToCart(s, p)
  \/ Quiet(s) /\ CheckoutStart(s, FALSE)
  \/ \E t \in {0, MaxTime} : CheckoutSeq(s, t)
  \/ CheckoutOrder(s)
  \/ CheckoutItems(s)
  \/ CheckoutQr(s)

\* The office; today's midnight on its clock is MaxTime.
Books(s) ==
  \/ Quiet(s) /\ doLogin(s, AdminPin, TRUE)
  \/ Quiet(s) /\ ~adminUnlocked[s] /\ unlockAdmin(s, AdminPin, TRUE)
  \/ Quiet(s) /\ adminUnlocked[s]
       /\ \E r \in ReceiptTexts, why \in ReasonTexts : AdminVoidStart(s, r, why)
  \/ AdminVoidSelect(s, MaxTime)
  \/ AdminVoidUpdate(s)
  \/ AdminVoidInsert(s)
  \/ Quiet(s) /\ adminUnlocked[s]
       /\ \E range \in {"all", "today"} : LoadReportStart(s, range, MaxTime)
  \/ LoadReportOrders(s)
  \/ LoadReportItems(s)

NextTally == Stand("s1") \/ Books("s2")

SpecTally == Init /\ [][NextTally]_vars

\* SpecGate: the three admin handlers behind the lock.  The device s1
\* sells; on the device s2 the panel is open, and void, reprint and report
\* are called whether it is unlocked or not.
Gate(s) ==
  \/ Quiet(s) /\ doLogin(s, StaffPin, TRUE)
  \/ ~adminUnlocked[s] /\ \E pin \in {StaffPin, AdminPin} : unlockAdmin(s, pin, TRUE)
  \/ lockAdmin(s)
  \/ \E r \in ReceiptTexts, why \in ReasonTexts : AdminVoidStart(s, r, why)
  \/ AdminVoidSelect(s, MaxTime)
  \/ AdminVoidUpdate(s)
  \/ AdminVoidInsert(s)
  \/ \E r \in ReceiptTexts : ReprintStart(s, r)
  \/ ReprintSelect(s)
  \/ ReprintItems(s)
  \/ ReprintInsert(s)
  \/ \E range \in {"all", "today"} : LoadReportStart(s, range, MaxTime)
  \/ LoadReportOrders(s)
  \/ LoadReportItems(s)

NextGate == Seller("s1") \/ Gate("s2")

SpecGate == Init /\ [][NextGate]_vars

\* SpecLate: the cart during a finalize call.  One device at its stall; the
\* product cards stay clickable while doCheckout awaits, so products are
\* added at any time.
Hand(s) ==
  \/ Quiet(s) /\ doLogin(s, StaffPin, TRUE)
  \/ Quiet(s) /\ chooseBar(s, HomeBar(s))
  \/ \E p \in ProductsOf(selectedBarId[s]) : addToCart(s, p)
  \/ Quiet(s) /\ CheckoutStart(s, FALSE)
  \/ CheckoutSeq(s, 0)
  \/ CheckoutOrder(s)
  \/ CheckoutItems(s)
  \/ CheckoutQr(s)

NextLate == Hand("s1")

SpecLate == Init /\ [][NextLate]_vars

\* SpecStamp: the void timestamp.  One device sells and voids its last
\* receipt, each void reading the device's clock when its PIN check returns.
Clock(s) ==
  \/ Quiet(s) /\ doLogin(s, StaffPin, TRUE)
  \/ Quiet(s) /\ chooseBar(s, HomeBar(s))
  \/ Quiet(s) /\ cart[s] = <<>> /\ \E p \in ProductsOf(selectedBarId[s]) : addToCart(s, p)
  \/ Quiet(s) /\ newOrder(s)
  \/ Quiet(s) /\ CheckoutStart(s, FALSE)
  \/ \E t \in Times : CheckoutSeq(s, t)
  \/ CheckoutOrder(s)
  \/ CheckoutItems(s)
  \/ CheckoutQr(s)
  \/ Quiet(s) /\ VoidLastStart(s)
  \/ \E pin \in {StaffPin, WrongPin}, t \in Times : VoidLastPin(s, pin, TRUE, t)
  \/ VoidLastUpdate(s)
  \/ VoidLastInsert(s)

NextStamp == Clock("s1")

SpecStamp == Init /\ [][NextStamp]_vars

\* SpecQueue: the print queue drained.  The device s1 sells with printed
\* receipts and the worker polls, a second invocation (w2) overlapping the
\* first at will.  The timer fires every 3 seconds for as long as the
\* worker runs, so a poll that can run does run, and a call that was
\* awaited returns: the steps of w1 are weakly fair.  Failing calls are
\* bounded by MaxFaults, so calls eventually succeed.
NextQueue ==
  \/ Press("s1")
  \/ \E w \in Workers : WorkerPoll(w)
  \/ \E w \in Workers : WorkerUpdate(w, MaxTime)

SpecQueue ==
  /\ Init /\ [][NextQueue]_vars
  /\ WF_vars(WorkerPoll("w1"))
  /\ WF_vars(WorkerUpdate("w1", MaxTime))

\* ================================================================ claims

\* ------------------------------------------------------------------ C1
\* C1: the calls of the sequencer made so far, by whichever sessions and in
\* whichever interleaving, returned exactly the integers that follow the
\* prior counter value (0), one each and in increasing order: the k-th call
\* answered got k and the receipt number formatted from k, so no number is
\* skipped, none is returned twice, and each is greater than all before it.
\* Numbers held by two finalize calls in flight at the same time differ.
C1_SequencerDistinctGapless ==
  /\ counter = Len(issued)
  /\ \A k \in 1..Len(issued) :
       /\ issued[k].row.short_no = k
       /\ issued[k].row.receipt_no = FormatReceiptNo(k)
       /\ \A j \in 1..(k - 1) : issued[j].row.short_no < issued[k].row.short_no
  /\ \A a, b \in Sessions :
       (a # b /\ co[a].pc \notin {"idle", "seq"} /\ co[b].pc \notin {"idle", "seq"})
         => /\ co[a].row.short_no # co[b].row.short_no
            /\ co[a].row.receipt_no # co[b].row.receipt_no

\* Two sessions hold the answers of two sequencer calls at the same time.
C1_Witness ==
  /\ Len(issued) = 2
  /\ issued[1].to # issued[2].to
  /\ \A s \in Sessions : co[s].pc = "order"

\* ------------------------------------------------------------------ C2
\* C2: every persisted order carries a receipt number and a short number
\* that the sequencer returned to the session whose finalize call created
\* it, and no two persisted orders of the event share a receipt number or a
\* short number.
C2_OrdersCarryIssuedNumbers ==
  /\ \A i \in 1..Len(orders) :
       \E k \in 1..Len(issued) :
         /\ issued[k].to = orders[i].device_id
         /\ issued[k].row.receipt_no = orders[i].receipt_no
         /\ issued[k].row.short_no = orders[i].short_no
         /\ orders[i].receipt_no # <<>> /\ orders[i].short_no >= 1
  /\ \A i, j \in 1..Len(orders) :
       (i # j /\ orders[i].event_id = orders[j].event_id)
         => /\ orders[i].receipt_no # orders[j].receipt_no
            /\ orders[i].short_no # orders[j].short_no

\* Two finalize calls of two sessions have each persisted an order.
C2_Witness ==
  /\ Len(orders) = 2
  /\ orders[1].device_id # orders[2].device_id

\* ------------------------------------------------------------------ C3
ItemsOfOrder(id) == ItemsOf(order_items, id)

RECURSIVE SumLineTotals(_)
SumLineTotals(rows) ==
  IF rows = <<>> THEN 0
  ELSE Head(rows).line_total_gross + SumLineTotals(Tail(rows))

\* C3: once the finalize call that created an order has ended, with success
\* or with an error at any step, the order has at least one OrderItem and
\* the line totals of its OrderItems sum to its gross total.
C3_OrdersHaveTheirItems ==
  \A i \in 1..Len(orders) :
    (\A s \in Sessions : co[s].pc = "idle" \/ co[s].orderId # orders[i].id)
      => /\ ItemsOfOrder(orders[i].id) # <<>>
         /\ SumLineTotals(ItemsOfOrder(orders[i].id)) = orders[i].gross_total

\* ------------------------------------------------------------------ C4
\* A void operation that was invoked after an earlier void on the same order
\* had finished and left it voided, every earlier one having written the
\* order and its VoidRecord together or nothing.
SecondVoids ==
  {e \in voidLog :
     /\ e.afterVoid
     /\ \A d \in voidLog : (d.order = e.order /\ d.n < e.n) => d.wrote # "order"}

\* C4: on either authorization path a void invoked on an order that an
\* earlier, finished void has set to voided writes nothing, is rejected as
\* already voided once the caller is authorized and the order is read, and
\* leaves exactly one VoidRecord for the order.
C4_SecondVoidRejected ==
  \A e \in SecondVoids :
    /\ e.wrote = "none"
    /\ e.result \in {"already", "unauthorized", "error"}
    /\ Cardinality(VoidsOf(e.order)) = 1

\* ------------------------------------------------------------------ C5
VoidsIdle ==
  \A s \in Sessions : vl[s].pc = "idle" /\ av[s].pc = "idle"

\* C5: whenever no void operation is in flight, an order is voided if and
\* only if at least one VoidRecord for it exists.
C5_VoidedIffVoidRecord ==
  VoidsIdle =>
    \A i \in 1..Len(orders) :
      (orders[i].status = "voided") <=> (VoidsOf(orders[i].id) # {})

\* ------------------------------------------------------------------ C6
\* C6: of the void operations that were invoked on one order while it was
\* still completed (so they overlap), at most one succeeds, and the order
\* has at most one VoidRecord.
C6_ConcurrentVoidsOneWinner ==
  \A d, e \in voidLog :
    (d # e /\ d.order = e.order
       /\ d.startStatus = "completed" /\ e.startStatus = "completed")
      => /\ ~(d.result = "ok" /\ e.result = "ok")
         /\ Cardinality(VoidsOf(e.order)) <= 1

\* ------------------------------------------------------------------ C7
\* C7: in every step no order is deleted or renumbered, an order that
\* appears is the one a finalize call inserts and has status completed, an
\* order's status changes only from completed to voided, and a voided order
\* stays voided.
C7_StatusOneWay ==
  [][ /\ Len(orders') >= Len(orders)
      /\ \A i \in 1..Len(orders) :
           /\ orders'[i].id = orders[i].id
           /\ orders[i].status = "voided" => orders'[i].status = "voided"
           /\ orders'[i].status # orders[i].status
                => (orders[i].status = "completed" /\ orders'[i].status = "voided")
      /\ \A i \in (Len(orders) + 1)..Len(orders') :
           /\ orders'[i].status = "completed"
           /\ \E s \in Sessions :
                co[s].pc = "order" /\ co'[s].pc = "items" /\ co'[s].orderId = i
    ]_vars

\* A second void has written to an order that an earlier void had voided,
\* and the order is voided.
C7_Witness ==
  \E e \in voidLog :
    /\ e.afterVoid /\ e.wrote # "none"
    /\ e.order \in 1..Len(orders) /\ orders[e.order].status = "voided"

\* ------------------------------------------------------------------ C8
\* An order without the two fields a void may write.
Frozen(o) == [o EXCEPT !.status = "", !.voided_at = NoTime]

\* C8: in every step every persisted order keeps its receipt number, short
\* number, public token, stall, cashier snapshot, payment method and totals
\* (every field but status and voided_at), and the OrderItems of an order
\* change only when the finalize call that created it inserts them.
C8_OrderFieldsFrozen ==
  [][ \A i \in 1..Len(orders) :
        /\ i <= Len(orders')
        /\ Frozen(orders'[i]) = Frozen(orders[i])
        /\ ItemsOf(order_items', orders[i].id) # ItemsOf(order_items, orders[i].id)
             => /\ ItemsOf(order_items, orders[i].id) = <<>>
                /\ \E s \in Sessions : co[s].pc = "items" /\ co[s].orderId = orders[i].id
    ]_vars

\* An order has been voided and then reprinted, and the worker has printed
\* both the receipt of the sale and the reprint.
C8_Witness ==
  /\ Len(orders) >= 1
  /\ orders[1].status = "voided"
  /\ Len(print_jobs) = 2
  /\ \A j \in 1..Len(print_jobs) :
       print_jobs[j].order_id = 1 /\ print_jobs[j].status = "printed"

\* ----------------------------------------------------------------- C10
\* C10: an administrative void that is past its guards, and so every one
\* that reads, updates an order or inserts a VoidRecord, was invoked in a
\* session whose latest unlock was a successful PIN check with role admin
\* and had not been locked since.
C10_AdminVoidNeedsAdminCheck ==
  \A s \in Sessions : av[s].pc # "idle" => av[s].proof

\* An administrative void has updated the order it named.
C10_Witness ==
  \E s \in Sessions :
    /\ av[s].pc = "insert"
    /\ orders[av[s].o].status = "voided"

\* ------------------------------------------------------------------ C9
\* C9: the order a self-service void works on is the latest order its
\* session had persisted when the void was invoked.
C9_SelfVoidTargetsLatest ==
  \A s \in Sessions :
    vl[s].pc # "idle" => vl[s].lastReceipt.order_id = vl[s].latest

\* ----------------------------------------------------------------- C11
\* C11: an administrative void called with a reason that is empty or made
\* of blanks only, whatever the receipt number typed and whatever the
\* status of the order it names, ends in the call itself: it leaves a
\* message of rejection, starts no read, and no order, void record or other
\* stored row changes.  With the admin area unlocked the message is one of
\* the two validation messages.
C11_BlankReasonRejected ==
  [][\A s \in Sessions, r \in ReceiptTexts \cup {<<>>}, why \in BlankTexts :
       AdminVoidStart(s, r, why) =>
         /\ av'[s] = AvIdle
         /\ msg'[s].adminMsg \in {"locked", "no_receipt", "no_reason"}
         /\ adminUnlocked[s] => msg'[s].adminMsg \in {"no_receipt", "no_reason"}
         /\ UNCHANGED <<dbVars, voidLog>>]_vars

\* An unlocked admin was told that the reason is missing, the order named
\* by then voided.
C11_Witness ==
  \E s \in Sessions :
    /\ adminUnlocked[s]
    /\ msg[s].adminMsg = "no_reason"
    /\ av[s] = AvIdle
    /\ Len(orders) >= 1
    /\ orders[1].status = "voided"

\* ----------------------------------------------------------------- C12
\* C12: when the PIN check of a self-service void returns null (blank PIN,
\* RPC error, unknown PIN, or a role that is neither staff nor admin), the
\* call ends in that step with the PIN message: no order is updated, no
\* void record is inserted, no other stored row changes, and the call
\* makes no later step.  A self-service void that is at one of its
\* persistence calls holds an identity the check returned.
C12_FailedPinAbortsVoid ==
  [][\A s \in Sessions :
       /\ \A pin \in PinInputs, ok \in BOOLEAN :
            (checkPin(pin, ok) = Null /\ VoidLastPin(s, pin, ok, MaxTime)) =>
              /\ vl'[s] = VlIdle
              /\ msg'[s].voidMsg = "pin"
              /\ UNCHANGED <<dbVars, lastReceipt>>
       /\ vl'[s].pc \in {"update", "insert"} =>
            /\ vl'[s].auth # Null
            /\ vl'[s].auth.role \in {"staff", "admin"}]_vars

\* A void of an existing completed order was refused for its PIN and the
\* order is still completed, without a void record.
C12_Witness ==
  \E e \in voidLog :
    /\ e.path = "self"
    /\ e.result = "unauthorized"
    /\ e.wrote = "none"
    /\ e.order \in 1..Len(orders)
    /\ orders[e.order].status = "completed"
    /\ voids = <<>>

\* ----------------------------------------------------------------- C13
\* C13: a finalize whose sequencer call fails, or returns a row without
\* receipt number and short number, ends in that step with the failure
\* shown: no order, order item or print job is created, and the cart and
\* the last receipt of the session stay as they were.  A finalize that is
\* past the sequencer holds a receipt number and a short number.
C13_SequencerFailureCreatesNothing ==
  [][\A s \in Sessions :
       /\ (co[s].pc = "seq" /\ co'[s] # co[s] /\ issued' = issued) =>
            /\ co'[s] = CoIdle
            /\ msg'[s].error = "fail"
            /\ UNCHANGED <<orders, order_items, print_jobs, cart, lastReceipt>>
       /\ co'[s].pc \in {"order", "items", "print", "qr"} =>
            /\ co'[s].row.receipt_no # <<>>
            /\ co'[s].row.short_no >= 1]_vars

\* A session that holds the receipt of order 1 called finalize again and
\* the sequencer gave it no number: order 1 is still the only order, its
\* receipt is still the last receipt, and the cart still holds the lines.
C13_Witness ==
  \E s \in Sessions :
    /\ co[s] = CoIdle
    /\ msg[s].error = "fail"
    /\ lastReceipt[s] # Null
    /\ lastReceipt[s].order_id = 1
    /\ cart[s] # <<>>
    /\ Len(orders) = 1
    /\ Len(issued) = 1
    /\ \A t \in Sessions : co[t] = CoIdle

\* ----------------------------------------------------------------- C14
\* The orders of the event that are completed and lie in the range.
Counted(range, start) ==
  {i \in 1..Len(orders) :
     /\ orders[i].event_id = EVENT_ID
     /\ orders[i].status = "completed"
     /\ (range = "today" => orders[i].created_at >= start)}

\* Count and sums of the orders S.
RECURSIVE TotalsOver(_)
TotalsOver(S) ==
  IF S = {} THEN [brutto |-> 0, ust |-> 0, netto |-> 0, bons |-> 0]
  ELSE LET i == CHOOSE j \in S : TRUE
           rest == TotalsOver(S \ {i})
       IN [brutto |-> rest.brutto + orders[i].gross_total,
           ust |-> rest.ust + orders[i].tax_total,
           netto |-> rest.netto + orders[i].net_total,
           bons |-> rest.bons + 1]

\* C14: the totals a report run shows are the count and the gross, tax and
\* net sums over exactly the orders of the event that are completed and in
\* the requested range when the run reads them, so voided orders and orders
\* before the range contribute nothing.  When an order is voided, what a
\* run over any range yields drops by exactly the count and values of that
\* order if it was counted, and stays the same otherwise.
C14_ReportTotalsOverCompleted ==
  [][/\ \A s \in Sessions :
          (lr[s].pc = "orders" /\ report'[s].totals # Null) =>
            report'[s].totals = TotalsOver(Counted(lr[s].range, lr[s].start))
     /\ \A i \in 1..Len(orders) :
          (orders[i].status = "completed" /\ orders'[i].status = "voided") =>
            \A range \in {"all", "today"}, start \in Times :
              LET before == ReportTotals(ReportOrders(range, start))
                  after == ReportTotals(ReportOrders(range, start))'
                  in == i \in Counted(range, start)
              IN /\ after.bons = before.bons - (IF in THEN 1 ELSE 0)
                 /\ after.brutto = before.brutto - (IF in THEN orders[i].gross_total ELSE 0)
                 /\ after.ust = before.ust - (IF in THEN orders[i].tax_total ELSE 0)
                 /\ after.netto = before.netto - (IF in THEN orders[i].net_total ELSE 0)]_vars

\* Two completed orders of different totals exist and the report of today
\* shows one receipt with the totals of the second order alone.
C14_Witness ==
  \E s \in Sessions :
    /\ lr[s] = LrIdle
    /\ report[s].totals # Null
    /\ Len(orders) = 2
    /\ orders[1].status = "completed" /\ orders[2].status = "completed"
    /\ orders[1].gross_total # orders[2].gross_total
    /\ report[s].totals.bons = 1
    /\ report[s].totals.brutto = orders[2].gross_total
    /\ report[s].totals.ust = orders[2].tax_total
    /\ report[s].totals.netto = orders[2].net_total

\* ----------------------------------------------------------------- C15
\* C15: what a report run and a receipt lookup read is fully committed:
\* every order the report's select returns has its order items at that
\* moment, and the order a receipt lookup reads has its order items and,
\* if it is voided, its void record.
C15_ReadersSeeCommitted ==
  [][/\ \A s \in Sessions :
          (lr[s].pc = "orders" /\ lr'[s].pc = "items") =>
            \A id \in lr'[s].ids : ItemsOf(order_items, id) # <<>>
     /\ (page.pc = "order" /\ page'.pc = "items") =>
          /\ ItemsOf(order_items, page'.o.id) # <<>>
          /\ page'.o.status = "voided" => VoidsOf(page'.o.id) # {}]_vars

\* ----------------------------------------------------------------- C16
\* C16: when the print job insert of a finalize called with printRequested
\* fails, the order and its items being persisted, the call ends with the
\* failure shown to the operator and the sale stays: no order or order item
\* changes, the order is still completed and still has all the lines of
\* the cart as its items.
C16_PrintFailureKeepsSale ==
  [][\A s \in Sessions :
       (co[s].pc = "print" /\ co'[s].pc = "idle") =>
         /\ msg'[s].error = "fail"
         /\ UNCHANGED <<orders, order_items, print_jobs>>
         /\ co[s].printRequested
         /\ co[s].orderId \in 1..Len(orders')
         /\ orders'[co[s].orderId].status = "completed"
         /\ ItemsOf(order_items', co[s].orderId) = ItemsRows(co[s])]_vars

\* The only order was finalized with printRequested and its call has ended
\* with the failure shown: the order is completed, has its item and has no
\* print job.
C16_Witness ==
  \E s \in Sessions :
    /\ \A t \in Sessions : co[t] = CoIdle
    /\ msg[s].error = "fail"
    /\ Len(orders) = 1
    /\ orders[1].device_id = s
    /\ orders[1].receipt_printed
    /\ orders[1].status = "completed"
    /\ ItemsOf(order_items, 1) # <<>>
    /\ print_jobs = <<>>
    /\ counter = 1

\* ----------------------------------------------------------------- C17
\* C17: a finalize that has persisted its completed order and the items
\* ends, whether or not its print job insert or QR rendering fails, with
\* the last receipt of its session describing that order (order id,
\* receipt number, short number, token, totals) and with the cart empty.
C17_FinalizeReturnsReceipt ==
  [][\A s \in Sessions :
       (co[s].pc \in {"print", "qr"} /\ co'[s].pc = "idle") =>
         /\ lastReceipt'[s] = ReceiptOf(co[s])
         /\ cart'[s] = <<>>]_vars

\* ----------------------------------------------------------------- C18
\* Sum of unit price times quantity over the lines at the positions S.
RECURSIVE SumOfLines(_, _)
SumOfLines(c, S) ==
  IF S = {} THEN 0
  ELSE LET i == CHOOSE j \in S : TRUE
       IN c[i].product.price_gross * c[i].qty + SumOfLines(c, S \ {i})

\* The cart of two beers at 2.50 and one sausage at 3.00.
ExampleCart ==
  <<[product |-> CHOOSE p \in Products : p.id = "p1", qty |-> 2],
    [product |-> CHOOSE p \in Products : p.id = "p2", qty |-> 1]>>

\* C18: for every cart, in whole cents: the gross total is the sum of unit
\* price times quantity over the lines; the tax is gross * 20 / 120 rounded
\* to the cent, a half cent away from zero, that is
\* gross - 3 < 6 * tax <= gross + 3; the net is gross minus tax, and tax
\* plus net is the gross.  The cart of 2.50 x 2 and 3.00 x 1 has gross
\* 8.00, tax 1.33 and net 6.67.
C18_TotalsOfCart ==
  /\ \A s \in Sessions :
       LET gross == grossTotal(cart[s])
           tax == taxTotal(gross)
           net == netTotal(gross, tax)
       IN /\ gross = SumOfLines(cart[s], 1..Len(cart[s]))
          /\ gross - 3 < 6 * tax /\ 6 * tax <= gross + 3
          /\ net = gross - tax
          /\ tax + net = gross
  /\ grossTotal(ExampleCart) = 800
  /\ taxTotal(800) = 133
  /\ netTotal(800, 133) = 667

\* ----------------------------------------------------------------- C19
\* Quantity a cart holds of a product: 0 when it has no line for it.
QtyOf(c, id) == IF HasLine(c, id) THEN LineOf(c, id).qty ELSE 0

\* The call changed the quantity of id by d and no other quantity.
CartMoved(s, id, d) ==
  /\ QtyOf(cart'[s], id) = QtyOf(cart[s], id) + d
  /\ \A other \in ProductIds \ {id} : QtyOf(cart'[s], other) = QtyOf(cart[s], other)

\* C19: after every step the cart of each session has at most one line per
\* product id and every line has a whole quantity of at least 1.
\* addToCart puts the product in at quantity 1 or raises its quantity by 1;
\* inc and dec of a product the cart holds change its quantity by +1 and
\* -1, a dec at quantity 1 removing the line; clearCart leaves the cart
\* empty; none of them changes another line.
C19_CartLines ==
  [][\A s \in Sessions :
       /\ \A i, j \in 1..Len(cart'[s]) :
            i # j => cart'[s][i].product.id # cart'[s][j].product.id
       /\ \A i \in 1..Len(cart'[s]) :
            cart'[s][i].qty \in Nat /\ cart'[s][i].qty >= 1
       /\ \A p \in Products :
            addToCart(s, p) =>
              /\ CartMoved(s, p.id, 1)
              /\ ~HasLine(cart[s], p.id) => LineOf(cart'[s], p.id).qty = 1
       /\ \A id \in ProductIds :
            /\ (HasLine(cart[s], id) /\ inc(s, id)) => CartMoved(s, id, 1)
            /\ (HasLine(cart[s], id) /\ dec(s, id)) =>
                 /\ CartMoved(s, id, 0 - 1)
                 /\ LineOf(cart[s], id).qty = 1 => ~HasLine(cart'[s], id)
       /\ clearCart(s) => cart'[s] = <<>>]_vars

\* A dec took the last unit of a product out of a cart that still holds
\* another product at a quantity above 1.
C19_Witness ==
  \E s \in Sessions :
    /\ cartLog[s].op = "dec"
    /\ cartLog[s].had
    /\ ~HasLine(cart[s], cartLog[s].id)
    /\ \E i \in 1..Len(cart[s]) : cart[s][i].qty > 1

\* ----------------------------------------------------------------- C20
\* C20: a call of inc or dec with a product id the cart has no line for
\* changes nothing: the cart of the session keeps its lines, no line is
\* opened, no cart of another session, no other session state and no
\* stored row changes, and no message is set.
C20_AbsentIdNoOp ==
  [][\A s \in Sessions, id \in ProductIds :
       (~HasLine(cart[s], id) /\ (inc(s, id) \/ dec(s, id))) =>
         /\ cart' = cart
         /\ msg' = msg
         /\ UNCHANGED <<dbVars, uiVars, frameVars>>]_vars

\* One session called inc and another called dec, each for a product its
\* cart, which holds a line, has no line for.
C20_Witness ==
  \E s, t \in Sessions :
    /\ cartLog[s].op = "inc" /\ ~cartLog[s].had
    /\ cartLog[t].op = "dec" /\ ~cartLog[t].had
    /\ cart[s] # <<>> /\ ~HasLine(cart[s], cartLog[s].id)
    /\ cart[t] # <<>> /\ ~HasLine(cart[t], cartLog[t].id)
    /\ msg[s] = NoMsg /\ msg[t] = NoMsg

\* ----------------------------------------------------------------- C21
\* C21: the cart of a session is empty right after a finalize that
\* succeeded, after clearCart, after chooseBar, after resetBar and after
\* doLogout.  No cart outlives its stall or its cashier: a session without
\* a cashier or without a stall has an empty cart, every line of a cart is
\* a product of the stall selected, and a cashier who logs in finds the
\* cart empty.
C21_CartCleared ==
  [][\A s \in Sessions :
       /\ (co[s].pc = "qr" /\ co'[s] = CoIdle /\ faults' = faults) => cart'[s] = <<>>
       /\ clearCart(s) => cart'[s] = <<>>
       /\ (\E id \in BarIds : chooseBar(s, id)) => cart'[s] = <<>>
       /\ resetBar(s) => cart'[s] = <<>>
       /\ doLogout(s) => cart'[s] = <<>>
       /\ (staff[s] = Null /\ staff'[s] # Null) => cart'[s] = <<>>
       /\ (staff'[s] = Null \/ selectedBarId'[s] = NoBar) => cart'[s] = <<>>
       /\ \A i \in 1..Len(cart'[s]) :
            cart'[s][i].product.bar_id = selectedBarId'[s]]_vars

\* After sales at both stalls by both cashiers the device has no cashier
\* and its cart is empty, the last cart call having added a product.
C21_Witness ==
  \E s \in Sessions :
    /\ Len(orders) = 2
    /\ orders[1].bar_id # orders[2].bar_id
    /\ orders[1].cashier_staff_id # orders[2].cashier_staff_id
    /\ staff[s] = Null
    /\ cartLog[s].op = "add"
    /\ cart[s] = <<>>

\* ----------------------------------------------------------------- C22
\* C22: a finalize called while no cashier is logged in, no stall is
\* selected or the cart is empty ends in the call itself with the
\* validation message of the first of these that applies: the sequencer
\* is not called (the counter and the numbers issued stay), no order,
\* order item or print job is written, and cart and last receipt stay.
C22_FinalizeGuards ==
  [][\A s \in Sessions, pr \in BOOLEAN :
       (/\ CheckoutStart(s, pr)
        /\ \/ staff[s] = Null
           \/ selectedBarOf(selectedBarId[s]) = Null
           \/ cart[s] = <<>>) =>
         /\ co'[s] = CoIdle
         /\ msg'[s].error =
              IF staff[s] = Null THEN "login"
              ELSE IF selectedBarOf(selectedBarId[s]) = Null THEN "bar"
              ELSE "empty"
         /\ UNCHANGED <<dbVars, issued, cart, lastReceipt>>]_vars

\* After a finished sale finalize was called on the emptied cart: the
\* message says so, and the one order and the counter are as they were.
C22_Witness ==
  \E s \in Sessions :
    /\ msg[s].error = "empty"
    /\ co[s] = CoIdle
    /\ cart[s] = <<>>
    /\ staff[s] # Null
    /\ lastReceipt[s] # Null
    /\ counter = 1
    /\ Len(orders) = 1
    /\ Len(issued) = 1

\* ----------------------------------------------------------------- C23
\* C23: an administrative void whose receipt number no order of the event
\* carries when the void looks it up ends in that step with a failure
\* message: no order is updated, no void record is inserted and no other
\* stored row changes.
C23_UnknownReceiptRejected ==
  [][\A s \in Sessions :
       (/\ av[s].pc = "select"
        /\ av'[s] # av[s]
        /\ OrdersByReceipt(av[s].r) = {}) =>
         /\ av'[s] = AvIdle
         /\ msg'[s].adminMsg = "fail"
         /\ UNCHANGED dbVars]_vars

\* An administrative void that named a receipt number no order had was
\* answered with not found, while an order exists, completed and without
\* a void record.
C23_Witness ==
  /\ \E e \in voidLog :
       e.path = "admin" /\ e.result = "notfound" /\ e.wrote = "none"
  /\ Len(orders) >= 1
  /\ \A i \in 1..Len(orders) : orders[i].status = "completed"
  /\ voids = <<>>
  /\ faults = 0

\* ----------------------------------------------------------------- C24
\* The identities a PIN check can return.
PinIdentities == {checkPin(pin, TRUE) : pin \in PinInputs} \ {Null}

C25_PrintJobsWrittenOnce ==
  [][/\ Len(print_jobs') >= Len(print_jobs)
     /\ \A i \in 1..Len(print_jobs) :
          print_jobs[i].status = "printed" => print_jobs'[i].status = "printed"
     /\ print_jobs' # print_jobs =>
          \/ /\ Len(print_jobs') = Len(print_jobs) + 1
             /\ SubSeq(print_jobs', 1, Len(print_jobs)) = print_jobs
             /\ print_jobs'[Len(print_jobs')].status = "queued"
             /\ print_jobs'[Len(print_jobs')].printed_at = NoTime
             /\ worker' = worker
             /\ \E s \in Sessions :
                  \/ co[s].pc = "print" /\ co'[s].pc = "qr"
                  \/ rp[s].pc = "insert" /\ rp'[s] = RpIdle
          \/ /\ Len(print_jobs') = Len(print_jobs)
             /\ co' = co /\ rp' = rp
             /\ \E w \in Workers :
                  /\ worker[w].pc = "update" /\ worker'[w] = WorkerIdle
                  /\ \A i \in 1..Len(print_jobs) :
                       IF i = worker[w].job
                       THEN /\ print_jobs'[i].status = "printed"
                            /\ print_jobs'[i].printed_at # NoTime
                            /\ print_jobs'[i].order_id = print_jobs[i].order_id
                            /\ print_jobs'[i].payload = print_jobs[i].payload
                            /\ print_jobs'[i].event_id = print_jobs[i].event_id
                       ELSE print_jobs'[i] = print_jobs[i]]_vars

\* A sale's job has been printed and marked, and the reprint's job waits.
C25_Witness ==
  /\ Len(print_jobs) = 2
  /\ print_jobs[1].status = "printed" /\ print_jobs[1].printed_at # NoTime
  /\ print_jobs[2].status = "queued" /\ print_jobs[2].printed_at = NoTime
  /\ \A s \in Sessions : co[s].pc = "idle" /\ rp[s].pc = "idle"

\* ----------------------------------------------------------------- C26
\* C26: whenever the worker prints, it prints one job, that job is queued
\* and no job enqueued before it is still queued; a job is marked printed
\* only after it was printed, and it then carries a print time.
C26_EarliestQueuedFirst ==
  [][/\ printed' # printed =>
          \E j \in 1..Len(print_jobs) :
            /\ printed' = Append(printed, j)
            /\ print_jobs[j].status = "queued"
            /\ \A i \in 1..(j - 1) : print_jobs[i].status # "queued"
     /\ \A i \in 1..Len(print_jobs') :
          print_jobs'[i].status = "printed" =>
            /\ print_jobs'[i].printed_at \in Times
            /\ \E k \in 1..Len(printed) : printed[k] = i]_vars

\* Both jobs were printed in the order of their creation and are marked.
C26_Witness ==
  /\ printed = <<1, 2>>
  /\ Len(print_jobs) = 2
  /\ \A i \in 1..2 : print_jobs[i].status = "printed" /\ print_jobs[i].printed_at \in Times

\* ----------------------------------------------------------------- C27
\* C27: all receipt texts rendered for one order are the same text: any
\* two print jobs of the same order, from the sale or from a reprint, on
\* any device and under any cashier, carry equal payloads.
C27_SameOrderSameText ==
  \A i, j \in 1..Len(print_jobs) :
    print_jobs[i].order_id = print_jobs[j].order_id =>
      print_jobs[i].payload = print_jobs[j].payload

\* ----------------------------------------------------------------- C28
\* The rendered text carries a line that names the order as voided.
ShowsVoided(text) == "status" \in DOMAIN text /\ text.status = "voided"

\* The reprint of session s has enqueued its job in this step.
Reprinted(s) ==
  rp[s].pc = "insert" /\ rp'[s] = RpIdle /\ print_jobs' # print_jobs

\* What a reprint that enqueues leaves behind, the voided mark aside: one
\* new queued job of the order, its text holding the persisted item lines
\* and totals, and every table row that was there unchanged.
ReprintEffect(s) ==
  LET o == orders[CHOOSE i \in OrdersByReceipt(rp[s].r) : TRUE]
      it == ItemsOf(order_items, o.id)
      job == print_jobs'[Len(print_jobs')]
  IN /\ OrdersByReceipt(rp[s].r) # {}
     /\ o.status \in {"completed", "voided"}
     /\ Len(print_jobs') = Len(print_jobs) + 1
     /\ SubSeq(print_jobs', 1, Len(print_jobs)) = print_jobs
     /\ job.status = "queued"
     /\ job.order_id = o.id
     /\ job.payload.lines =
          [i \in 1..Len(it) |->
             [qty |-> it[i].qty, name |-> it[i].name_snapshot,
              lineTotal |-> it[i].line_total_gross]]
     /\ job.payload.brutto = o.gross_total
     /\ job.payload.ust = o.tax_total
     /\ job.payload.netto = o.net_total
     /\ UNCHANGED <<counter, orders, order_items, voids>>

\* C28: a reprint enqueues exactly one new queued job for the order named,
\* completed or voided, with the persisted item lines and totals in its
\* text, changes no order, item, void record or earlier job, and the text
\* of a voided order says that the order is voided.
C28_ReprintOfVoidedSaysSo ==
  [][\A s \in Sessions :
       Reprinted(s) =>
         /\ ReprintEffect(s)
         /\ \A i \in OrdersByReceipt(rp[s].r) :
              orders[i].status = "voided" => ShowsVoided(print_jobs'[Len(print_jobs')].payload)]_vars

\* ----------------------------------------------------------------- C29
\* The name of the stall of order i.
StallName(i) == (CHOOSE b \in Bars : b.id = orders[i].bar_id).name

\* Sum of the function f over the finite set S.
RECURSIVE SumOver(_, _)
SumOver(S, f) ==
  IF S = {} THEN 0
  ELSE LET x == CHOOSE y \in S : TRUE IN f[x] + SumOver(S \ {x}, f)

\* rows holds exactly one row per key in keys, and the rows stand in
\* descending order of gross.
OnePerKey(rows, keys, keyOf(_)) ==
  /\ {keyOf(rows[i]) : i \in 1..Len(rows)} = keys
  /\ Len(rows) = Cardinality(keys)
  /\ \A i \in 1..(Len(rows) - 1) : rows[i].brutto >= rows[i + 1].brutto

\* C29: when a report run reads the orders, its per-stall list holds one
\* row per stall name that has a completed order in the range, with the
\* count and the gross sum of exactly those orders of the stall; when it
\* reads the items, its per-product list holds one row per name snapshot
\* among the items of the orders it read, with the quantity and the gross
\* sum of exactly those items; both lists are in descending order of gross.
C29_ReportBreakdowns ==
  [][\A s \in Sessions :
       /\ (lr[s].pc = "orders" /\ report'[s].totals # Null) =>
            LET S == Counted(lr[s].range, lr[s].start)
                rows == report'[s].byBar
                Gross == [i \in S |-> orders[i].gross_total]
                One == [i \in S |-> 1]
            IN /\ OnePerKey(rows, {StallName(i) : i \in S}, LAMBDA r : r.bar)
               /\ \A k \in 1..Len(rows) :
                    LET Sk == {i \in S : StallName(i) = rows[k].bar}
                    IN /\ rows[k].bons = SumOver(Sk, One)
                       /\ rows[k].brutto = SumOver(Sk, Gross)
       /\ (lr[s].pc = "items" /\ lr'[s] = LrIdle /\ report'[s].error = "") =>
            LET I == {j \in 1..Len(order_items) : order_items[j].order_id \in lr[s].ids}
                rows == report'[s].byProduct
                Gross == [j \in I |-> order_items[j].line_total_gross]
                Qty == [j \in I |-> order_items[j].qty]
            IN /\ OnePerKey(rows, {order_items[j].name_snapshot : j \in I},
                            LAMBDA r : r.produkt)
               /\ \A k \in 1..Len(rows) :
                    LET Ik == {j \in I : order_items[j].name_snapshot = rows[k].produkt}
                    IN /\ rows[k].menge = SumOver(Ik, Qty)
                       /\ rows[k].brutto = SumOver(Ik, Gross)]_vars

\* A report over two completed orders of different stalls, the cheaper one
\* sold first: both lists lead with the dearer one.
C29_Witness ==
  \E s \in Sessions :
    /\ lr[s] = LrIdle /\ report[s].error = ""
    /\ Len(orders) = 2
    /\ orders[1].gross_total < orders[2].gross_total
    /\ StallName(1) # StallName(2)
    /\ Len(report[s].byBar) = 2
    /\ report[s].byBar[1] = [bar |-> StallName(2), brutto |-> orders[2].gross_total, bons |-> 1]
    /\ report[s].byBar[2] = [bar |-> StallName(1), brutto |-> orders[1].gross_total, bons |-> 1]
    /\ Len(report[s].byProduct) = 2
    /\ report[s].byProduct[1].brutto > report[s].byProduct[2].brutto
    /\ report[s].byProduct[1].menge = 1

\* ----------------------------------------------------------------- C30
\* C30: in every state a session's admin panel is unlocked exactly when
\* its adminUser is an identity of role admin that a PIN check can return,
\* and exactly when its latest unlock passed such a check and no lock
\* followed; an unlock whose PIN check returns nothing or an identity of
\* another role leaves adminUnlocked and adminUser as they were, and
\* lockAdmin sets them to false and null.
C30_UnlockedIffAdminUser ==
  /\ [](\A s \in Sessions :
          /\ adminUnlocked[s] <=>
               (adminUser[s] \in PinIdentities /\ adminUser[s].role = "admin")
          /\ ~adminUnlocked[s] <=> adminUser[s] = Null
          /\ adminUnlocked[s] <=> adminProof[s])
  /\ [][\A s \in Sessions :
          /\ \A pin \in PinInputs, ok \in BOOLEAN :
               (/\ unlockAdmin(s, pin, ok)
                /\ (checkPin(pin, ok) = Null \/ checkPin(pin, ok).role # "admin")) =>
                  UNCHANGED <<adminUnlocked, adminUser>>
          /\ lockAdmin(s) => ~adminUnlocked'[s] /\ adminUser'[s] = Null]_vars

\* The panel is unlocked under the admin's identity while a cashier is the
\* one logged in on the device.
C30_Witness ==
  /\ adminUnlocked["s2"]
  /\ adminUser["s2"] = [id |-> "u2", name |-> "Chef", role |-> "admin"]
  /\ staff["s2"] # Null /\ staff["s2"].role = "staff"

\* ----------------------------------------------------------------- C31
\* C31: a logout ends elevated access: in the state a logout leaves, the
\* session's admin panel is locked, so that no administrative void, reprint
\* or report passes its guard before an admin PIN check unlocks it again.
C31_LogoutLocksPanel ==
  [][\A s \in Sessions :
       (staff[s] # Null /\ staff'[s] = Null) => ~adminUnlocked'[s]]_vars

\* ----------------------------------------------------------------- C32
\* C32: a call of adminVoidByReceipt, adminReprintByReceipt or loadReport
\* made while the session's panel is locked starts no read and no write
\* (the handler does not get past its guard and the tables stay as they
\* are): the void and the reprint set the message that the panel is locked,
\* the report sets its error and shows the empty report.
C32_LockedPanelTouchesNothing ==
  [][\A s \in Sessions :
       ~adminUnlocked[s] =>
         /\ av[s].pc = "idle" => av'[s].pc = "idle"
         /\ rp[s].pc = "idle" => rp'[s].pc = "idle"
         /\ lr[s].pc = "idle" => lr'[s].pc = "idle"
         /\ \A r \in ReceiptTexts, why \in ReasonTexts :
              AdminVoidStart(s, r, why) =>
                msg'[s].adminMsg = "locked" /\ UNCHANGED <<dbVars, av, ops>>
         /\ \A r \in ReceiptTexts :
              ReprintStart(s, r) =>
                msg'[s].adminMsg = "locked" /\ UNCHANGED <<dbVars, rp, ops>>
         /\ \A range \in {"all", "today"} :
              LoadReportStart(s, range, MaxTime) =>
                /\ report'[s] = [error |-> "locked", totals |-> Null,
                                 byBar |-> <<>>, byProduct |-> <<>>]
                /\ UNCHANGED <<dbVars, lr, ops>>]_vars

\* With an order on file, the locked panel has turned down a void or a
\* reprint and a report, and nothing of it is in flight or on record.
C32_Witness ==
  /\ ~adminUnlocked["s2"]
  /\ msg["s2"].adminMsg = "locked"
  /\ report["s2"].error = "locked"
  /\ Len(orders) >= 1
  /\ av["s2"].pc = "idle" /\ rp["s2"].pc = "idle" /\ lr["s2"].pc = "idle"
  /\ voids = <<>> /\ print_jobs = <<>> /\ voidLog = {}

\* ----------------------------------------------------------------- C33
\* C33: whenever no finalize call is in flight, every order whose
\* receipt_printed flag is true has a print job.
C33_PrintedFlagHasJob ==
  (\A s \in Sessions : co[s].pc = "idle") =>
    \A i \in 1..Len(orders) :
      orders[i].receipt_printed =>
        \E j \in 1..Len(print_jobs) : print_jobs[j].order_id = orders[i].id

\* ----------------------------------------------------------------- C34
\* C34: whenever no finalize call is in flight, every short number the
\* sequencer has issued is the short number of exactly one persisted order
\* of the event, so that the orders' short numbers are 1..counter with no
\* gap.
C34_IssuedNumbersAllOnOrders ==
  (\A s \in Sessions : co[s].pc = "idle") =>
    \A k \in 1..Len(issued) :
      Cardinality({i \in 1..Len(orders) :
                     /\ orders[i].event_id = EVENT_ID
                     /\ orders[i].short_no = issued[k].row.short_no}) = 1

\* ----------------------------------------------------------------- C35
\* The item rows of a finalize call are the lines the cart had when the
\* call was made, and the order's gross is that cart's total.
SoldAsCalled(s) ==
  /\ (co[s].pc = "order" /\ co'[s].pc = "items") =>
       orders'[Len(orders')].gross_total = SumLines(co[s].cartLines)
  /\ (co[s].pc = "items" /\ co'[s].pc = "qr") =>
       /\ Len(order_items') = Len(order_items) + Len(co[s].cartLines)
       /\ \A i \in 1..Len(co[s].cartLines) :
            LET it == order_items'[Len(order_items) + i]
                l == co[s].cartLines[i]
            IN /\ it.order_id = co[s].orderId
               /\ it.product_id = l.product.id
               /\ it.name_snapshot = l.product.name
               /\ it.unit_price_gross = l.product.price_gross
               /\ it.qty = l.qty

\* C35: a finalize call persists the cart as it was when the call was made,
\* and what was added to the cart while the call was awaiting is still in
\* the cart when the call has completed: a product whose quantity in the
\* cart exceeds the quantity sold is in the cart afterwards.
C35_LateAdditionsKept ==
  [][\A s \in Sessions :
       /\ SoldAsCalled(s)
       /\ (co[s].pc = "qr" /\ co'[s].pc = "idle" /\ lastReceipt'[s] # lastReceipt[s]) =>
            \A id \in ProductIds :
              QtyOf(cart[s], id) > QtyOf(co[s].cartLines, id) =>
                QtyOf(cart'[s], id) = QtyOf(cart[s], id) - QtyOf(co[s].cartLines, id)]_vars

\* ----------------------------------------------------------------- C36
\* C36: an order has no void timestamp while it is completed and has one
\* once it is voided, and a void timestamp that was written is never
\* written over with another.
C36_VoidedAtWrittenOnce ==
  [][\A i \in 1..Len(orders) :
       /\ orders'[i].status = "completed" <=> orders'[i].voided_at = NoTime
       /\ orders[i].voided_at # NoTime => orders'[i].voided_at = orders[i].voided_at]_vars

\* ----------------------------------------------------------------- C37
\* C37: the worker outputs the payload of each print job at most once: no
\* job stands twice in the print log.
C37_PrintedAtMostOnce ==
  \A i, j \in 1..Len(printed) : printed[i] = printed[j] => i = j

\* ----------------------------------------------------------------- C38
\* Number of jobs marked printed.
PrintedCount(jobs) == Cardinality({i \in 1..Len(jobs) : jobs[i].status = "printed"})

\* C38: with the worker polling fairly and failing calls bounded, every
\* print job that is queued is eventually marked printed; and every step
\* marks at most one more job printed, a step that marks one being the
\* update of one poll.
C38_QueuedEventuallyPrinted ==
  /\ \A j \in 1..MaxJobs :
       (Len(print_jobs) >= j /\ print_jobs[j].status = "queued")
         ~> (Len(print_jobs) >= j /\ print_jobs[j].status = "printed")
  /\ [][/\ PrintedCount(print_jobs') <= PrintedCount(print_jobs) + 1
        /\ PrintedCount(print_jobs') > PrintedCount(print_jobs) =>
             \E w \in Workers : worker[w].pc = "update" /\ worker'[w] = WorkerIdle]_vars

\* Two sales' jobs are marked printed and the worker is idle, after a
\* call of it had failed.
C38_Witness ==
  /\ Len(print_jobs) = MaxJobs
  /\ \A j \in 1..MaxJobs : print_jobs[j].status = "printed"
  /\ worker["w1"] = WorkerIdle
  /\ faults = MaxFaults

\* ----------------------------------------------------------------- C39
\* Sum of the field brutto, and of the field bons, over the rows.
RECURSIVE SumBrutto(_)
SumBrutto(rows) == IF rows = <<>> THEN 0 ELSE Head(rows).brutto + SumBrutto(Tail(rows))
RECURSIVE SumBons(_)
SumBons(rows) == IF rows = <<>> THEN 0 ELSE Head(rows).bons + SumBons(Tail(rows))

\* The per-stall list of the run adds up to its grand totals.
StallsReconcile(s) ==
  (lr[s].pc = "orders" /\ report'[s].totals # Null) =>
    /\ SumBons(report'[s].byBar) = report'[s].totals.bons
    /\ SumBrutto(report'[s].byBar) = report'[s].totals.brutto

\* C39: in every report run the per-stall counts add up to the count of
\* receipts and the per-stall gross values to the total gross, and when the
\* run has read the items the per-product gross values add up to the total
\* gross as well.
C39_BreakdownsReconcile ==
  [][\A s \in Sessions :
       /\ StallsReconcile(s)
       /\ (lr[s].pc = "items" /\ lr'[s] = LrIdle /\ report'[s].error = "") =>
            SumBrutto(report'[s].byProduct) = report'[s].totals.brutto]_vars

=============================================================================
